---- MODULE Spec2Model ----
(***************************************************************************)
(* The conversation orchestration engine of the assistant backend:         *)
(* Assistant.thread (assistant.service.ts), the thread store access        *)
(* functions (db.utils.ts), the similarity search match_embeddings (SQL    *)
(* migration) and the model invocation (ai.utils.ts).                      *)
(*                                                                         *)
(* Several request handlers run thread() concurrently against one store.   *)
(* Every await of a store call is one atomic step; store writes a handler  *)
(* has started but not awaited yet are kept in flight and land on their    *)
(* own, also after the handler's turn has already failed.                  *)
(***************************************************************************)
EXTENDS Integers, Sequences, FiniteSets, TLC

(***************************************************************************)
(* Bounds of the model.                                                    *)
(***************************************************************************)
\* number of thread() calls started in one behaviour
MaxTurns == 2
\* number of spontaneous failures of the store or of a provider
MaxFaults == 1
\* number of tool-call rounds the model stub requests in one turn
MaxRounds == 1
\* matchCount of the assistant configuration
MatchCount == 2

\* rounds of the tool-call loop whose messages the loop model keeps
MaxLoopRounds == 2

\* the concurrent request handlers of the host
Procs == {"h1", "h2"}

(***************************************************************************)
(* Texts.  A text is a sequence of lines; a line is an optional directive  *)
(* marker and a body.  The empty sequence is the empty string.             *)
(***************************************************************************)
Line(body) == [marker |-> "", body |-> body]
Objective(body) == [marker |-> "USER_OBJECTIVE:", body |-> body]

EmptyText == <<>>

\* message strings a caller may send (the empty string included)
UserMessages == {EmptyText, <<Line("a")>>}

\* final reply texts the model may produce
Replies == {<<Line("a")>>, <<Line("b"), Objective("a")>>}

\* AssistantConfig.title values
Titles == {"Assistant", ""}

(***************************************************************************)
(* Embedding provider and text splitter (ai.integration.ts).               *)
(***************************************************************************)
RECURSIVE CountBody(_, _)
CountBody(text, body) ==
  IF text = <<>> THEN 0
  ELSE (IF Head(text).body = body THEN 1 ELSE 0) + CountBody(Tail(text), body)

\* generateEmbeddings: the vector of a text (two dimensions, one per topic)
generateEmbeddings(text) == <<CountBody(text, "a"), CountBody(text, "b")>>

\* splitTextIntoChunks: the ordered substrings covering the text, one line each
splitTextIntoChunks(text) == [i \in 1..Len(text) |-> <<text[i]>>]

\* generateEmbeddingChunks: every snippet with its own embedding
generateEmbeddingChunks(text) ==
  [i \in 1..Len(text) |->
     [content |-> splitTextIntoChunks(text)[i],
      embedding |-> generateEmbeddings(splitTextIntoChunks(text)[i])]]

(***************************************************************************)
(* Cosine similarity of pgvector (operator <=> is the cosine distance),    *)
(* in integer arithmetic: the vectors have no negative component.          *)
(***************************************************************************)
Dot(u, v) == u[1] * v[1] + u[2] * v[2]

\* the similarity threshold of the assistant configuration, SimNum / SimDen
SimNum == 7
SimDen == 10

\* 1 - (u <=> v) > num / den ; a zero vector has no cosine (NaN compares false)
SimilarityAbove(u, v, num, den) ==
  /\ Dot(u, v) > 0
  /\ Dot(u, v) * Dot(u, v) * den * den > num * num * Dot(u, u) * Dot(v, v)

\* (u1 <=> q) < (u2 <=> q): u1 is strictly nearer to q than u2
Nearer(u1, u2, q) ==
  /\ Dot(q, q) > 0 /\ Dot(u1, u1) > 0 /\ Dot(u2, u2) > 0
  /\ Dot(u1, q) * Dot(u1, q) * Dot(u2, u2) > Dot(u2, q) * Dot(u2, q) * Dot(u1, u1)

Min(a, b) == IF a <= b THEN a ELSE b

SetMax(S) == CHOOSE x \in S : \A y \in S : y <= x

(***************************************************************************)
(* Thread store: table assistant_threads.                                  *)
(* threads maps the id of every stored thread to its row.  The column      *)
(* user_objectives is JSONB: it holds either a JSON string (the text of a  *)
(* serialized array) or a JSON array.                                      *)
(***************************************************************************)
JsonString(arr) == [json |-> "string", value |-> arr]
JsonArray(arr) == [json |-> "array", value |-> arr]

\* JSON.parse(x as string) of a column value: a JSON string holding a
\* serialized array parses to that array; an array is first converted to a
\* string (its elements joined by commas), which is no JSON text
JsonParse(column) ==
  IF column.json = "string" THEN [ok |-> TRUE, value |-> column.value]
  ELSE [ok |-> FALSE, value |-> <<>>]

\* title || null : the stored title (<<>> is SQL NULL)
TitleOrNull(title) == IF title = "" THEN <<>> ELSE <<title>>

NoThread == [id |-> 0, userId |-> "", title |-> <<>>, userObjectives |-> <<>>]

Ok(thread) == [tag |-> "ok", thread |-> thread, code |-> ""]
Null == [tag |-> "null", thread |-> NoThread, code |-> ""]
Throw(code) == [tag |-> "error", thread |-> NoThread, code |-> code]

\* the Thread object built from a returned row; JSON.parse may throw, which
\* the enclosing catch turns into DATABASE_ERROR
ToThread(id, row) ==
  IF JsonParse(row.user_objectives).ok
  THEN Ok([id |-> id, userId |-> row.user_id, title |-> row.title,
           userObjectives |-> JsonParse(row.user_objectives).value])
  ELSE Throw("DATABASE_ERROR")

\* the thread identifier of a request: absent, the id of a thread, a
\* well-formed id that was never stored, or a string that is no uuid
NoRef == [kind |-> "none", id |-> 0]
IdRef(id) == [kind |-> "id", id |-> id]

\* fault: the store fails for a reason other than 'no single row'
\* (data null, error with another code)
readThread(rows, ref, fault) ==
  IF fault \/ ref.kind = "malformed" THEN Null
  ELSE IF ref.kind # "id" \/ ref.id \notin DOMAIN rows THEN Throw("UNAUTHORIZED")
  ELSE ToThread(ref.id, rows[ref.id])

Extend(rows, id, row) ==
  [i \in DOMAIN rows \cup {id} |-> IF i = id THEN row ELSE rows[i]]

\* the result and the table after the call
createThread(rows, id, userId, title, fault) ==
  IF fault THEN [res |-> Throw("DATABASE_ERROR"), rows |-> rows]
  ELSE LET row == [user_id |-> userId, title |-> TitleOrNull(title),
                   user_objectives |-> JsonString(<<>>)]
       IN [res |-> ToThread(id, row), rows |-> Extend(rows, id, row)]

\* updateThread(threadId, {userObjectives}); on a store failure the function
\* maps the missing row to a Thread of undefined fields and resolves
updateThread(rows, id, userObjectives, fault) ==
  IF fault THEN [res |-> Ok(NoThread), rows |-> rows]
  ELSE IF id \notin DOMAIN rows THEN [res |-> Throw("UNAUTHORIZED"), rows |-> rows]
  ELSE LET row == [rows[id] EXCEPT !.user_objectives = JsonArray(userObjectives)]
       IN [res |-> ToThread(id, row), rows |-> Extend(rows, id, row)]

(***************************************************************************)
(* Thread store: table assistant_message_embeddings.                       *)
(***************************************************************************)
Row(threadId, orderIndex, chunkIndex, role, content, embedding) ==
  [thread_id |-> threadId, order_index |-> orderIndex, chunk_index |-> chunkIndex,
   role |-> role, content |-> content, embedding |-> embedding]

\* a table without the constraint
unique_thread_message_chunk_Dropped(table, row) == TRUE

\* constraint unique_thread_message_chunk
unique_thread_message_chunk(table, row) ==
  \A f \in table :
    ~(/\ f.thread_id = row.thread_id
      /\ f.order_index = row.order_index
      /\ f.chunk_index = row.chunk_index)

\* thread_id REFERENCES assistant_threads(id)
ForeignKeyHolds(rows, row) == row.thread_id \in DOMAIN rows

\* a createMessage that takes the fragments of the thread back when it fails
createMessage_Rollback(table, rows, row, fault) ==
  IF fault \/ ~unique_thread_message_chunk(table, row) \/ ~ForeignKeyHolds(rows, row)
  THEN [code |-> "DATABASE_ERROR", table |-> {f \in table : f.thread_id # row.thread_id}]
  ELSE [code |-> "", table |-> table \cup {row}]

\* the result code ("" when the row was inserted) and the table after the call
createMessage(table, rows, row, fault) ==
  IF fault \/ ~unique_thread_message_chunk(table, row) \/ ~ForeignKeyHolds(rows, row)
  THEN [code |-> "DATABASE_ERROR", table |-> table]
  ELSE [code |-> "", table |-> table \cup {row}]

OrderIndices(table, threadId) == {f.order_index : f \in {g \in table : g.thread_id = threadId}}

\* highest order_index of the thread, 0 when it has no fragment
MaxOrderIndex(table, threadId) ==
  IF OrderIndices(table, threadId) = {} THEN 0 ELSE SetMax(OrderIndices(table, threadId))

\* a lookup that leaves a gap above the highest order index
getNextOrderIndex_Gap(table, threadId, fault) == MaxOrderIndex(table, threadId) + 2

\* on an error of the store or without data the function returns 1
getNextOrderIndex(table, threadId, fault) ==
  IF fault \/ OrderIndices(table, threadId) = {} THEN 1
  ELSE MaxOrderIndex(table, threadId) + 1

(***************************************************************************)
(* Similarity search: SQL function match_embeddings and its caller.        *)
(***************************************************************************)
\* a WHERE clause without the thread filter
Matching_AnyThread(table, query, num, den, threadId) ==
  {f \in table : SimilarityAbove(f.embedding, query, num, den)}

\* WHERE 1 - (me.embedding <=> query_embedding) > similarity_threshold
\*   AND me.thread_id = filter_thread_id
Matching(table, query, num, den, threadId) ==
  {f \in table : /\ SimilarityAbove(f.embedding, query, num, den)
                 /\ f.thread_id = threadId}

Injective(s) == \A i, j \in DOMAIN s : i # j => s[i] # s[j]

Range(s) == {s[i] : i \in DOMAIN s}

\* a search that finds nothing
match_embeddings_Nothing(table, query, num, den, matchCount, threadId) == {<<>>}

\* ORDER BY me.embedding <=> query_embedding LIMIT match_count : every
\* sequence of the nearest rows, nearest first; rows at the same distance
\* come in any order
match_embeddings(table, query, num, den, matchCount, threadId) ==
  LET M == Matching(table, query, num, den, threadId)
      n == Min(matchCount, Cardinality(M))
  IN {s \in [1..n -> M] :
        /\ Injective(s)
        /\ \A i, j \in 1..n : i < j => ~Nearer(s[j].embedding, s[i].embedding, query)
        /\ \A f \in M \ Range(s) : \A i \in 1..n : ~Nearer(f.embedding, s[i].embedding, query)}

\* data.map((item) => ({...})) : the MessageEmbedding of a returned row
ToMessageEmbedding(item) ==
  [threadId |-> item.thread_id, chunkIndex |-> item.chunk_index,
   orderIndex |-> item.order_index, role |-> item.role, content |-> item.content,
   embedding |-> item.embedding]

\* the lists findSimilarMessages may return when neither call fails
findSimilarMessages(table, threadId, query, num, den, matchCount) ==
  {[i \in DOMAIN rows |-> ToMessageEmbedding(rows[i])] :
     rows \in match_embeddings(table, generateEmbeddings(query), num, den, matchCount, threadId)}

(***************************************************************************)
(* Message histories (OpenAI.ChatCompletionMessageParam).                  *)
(***************************************************************************)
Message(role, content) ==
  [role |-> role, content |-> content, tool_calls |-> <<>>, tool_call_id |-> ""]

\* the configured system message
SystemMessage == <<Line("system")>>

RECURSIVE Insert(_, _)
\* x put behind the last element whose orderIndex is not greater
Insert(sorted, x) ==
  IF sorted = <<>> THEN <<x>>
  ELSE IF x.orderIndex < Head(sorted).orderIndex THEN <<x>> \o sorted
  ELSE <<Head(sorted)>> \o Insert(Tail(sorted), x)

\* the list left in the order it was returned in
SortByOrderIndex_Unsorted(list) == list

RECURSIVE SortByOrderIndex(_)
\* similarMessages.sort((a, b) => a.orderIndex - b.orderIndex), a stable sort
SortByOrderIndex(list) ==
  IF list = <<>> THEN <<>>
  ELSE Insert(SortByOrderIndex(SubSeq(list, 1, Len(list) - 1)), list[Len(list)])

RECURSIVE Bulleted(_)
\* thread.userObjectives.map((obj) => `- ${obj}`)
Bulleted(objectives) ==
  IF objectives = <<>> THEN <<>>
  ELSE <<[marker |-> "-", body |-> Head(objectives)]>> \o Bulleted(Tail(objectives))

\* systemContent of prepareProcess
SystemContent(thread) ==
  IF Len(thread.userObjectives) > 0
  THEN SystemMessage \o <<Line("User Objectives:")>> \o Bulleted(thread.userObjectives)
  ELSE SystemMessage

\* the user message put in front of the retrieved fragments
prepareProcess_UserFirst(request, thread, similarMessages) ==
  <<Message("system", SystemContent(thread)), Message("user", request.message)>>
  \o [i \in DOMAIN similarMessages |->
        Message(SortByOrderIndex(similarMessages)[i].role,
                SortByOrderIndex(similarMessages)[i].content)]

\* the messages prepareProcess assembles from the list findSimilarMessages returned
prepareProcess(request, thread, similarMessages) ==
  <<Message("system", SystemContent(thread))>>
  \o [i \in DOMAIN similarMessages |->
        Message(SortByOrderIndex(similarMessages)[i].role,
                SortByOrderIndex(similarMessages)[i].content)]
  \o <<Message("user", request.message)>>

\* a system message put in front of every history
ensureSystemMessage_Always(messages, systemMessage) ==
  <<Message("system", systemMessage)>> \o messages

ensureSystemMessage(messages, systemMessage) ==
  IF \E i \in DOMAIN messages : messages[i].role = "system" THEN messages
  ELSE <<Message("system", systemMessage)>> \o messages

RECURSIVE extractUserObjectives(_)
\* the text behind every USER_OBJECTIVE: marker, in order
extractUserObjectives(content) ==
  IF content = <<>> THEN <<>>
  ELSE (IF Head(content).marker = "USER_OBJECTIVE:" THEN <<Head(content).body>> ELSE <<>>)
       \o extractUserObjectives(Tail(content))

\* a validation that only looks at userId
validateRequest_UserIdOnly(request) == request.userId # ""

\* assistantRequestSchema: message and meta.userId are strings of at least
\* one character, context passes the configured schema, and sources, when
\* there are any, are objects with id, type and content
\* (assistantSourceSchema)
validateRequest(request) ==
  /\ request.message # EmptyText
  /\ request.shape \in {"full", "schemaSources"}
  /\ request.userId # ""

(***************************************************************************)
(* Model invocation (executeAICall) and the tool-call loop                 *)
(* (processToolCalls).                                                     *)
(***************************************************************************)
ToolCall(id, name) == [id |-> id, name |-> name, arguments |-> "{}"]

\* a tool call whose arguments text is given
ToolCallWith(id, name, arguments) == [ToolCall(id, name) EXCEPT !.arguments = arguments]

\* the tool-call lists the model stub may request
RequestedToolCalls == {<<ToolCall("call_1", "getWeather")>>}

\* config.tools of the weather assistant: the names of the configured tools
ConfiguredTools == {"getWeather"}

\* JavaScript values as far as the tool loop looks at them
Undefined == [kind |-> "undefined"]
Str(text) == [kind |-> "string", text |-> text]
Entity(id) == [kind |-> "object", id |-> id]
Arr(items) == [kind |-> "array", items |-> items]

\* if (x): undefined and the empty string are falsy, objects and arrays truthy
Truthy(x) == x.kind # "undefined" /\ x # Str("")

\* a value returned to a caller, and an AppError thrown to it
Returns(value) == [ok |-> TRUE, value |-> value]
AppError(message, code) == [ok |-> FALSE, message |-> message, code |-> code]

\* throwAppError(details) without an error argument: `${details.message}: `
throwAppError(message, code) == AppError(message \o ": ", code)

\* tools.find((t) => t.name === toolName), NOT_FOUND when there is none
getTool(toolName, tools) ==
  IF toolName \in tools THEN Returns(toolName)
  ELSE throwAppError("Tool not found: " \o toolName, "NOT_FOUND")

\* JSON.parse of the texts the model writes (quotes left out): an arguments
\* object with the type of its field location, an array of entities, one
\* entity, or a SyntaxError
JSONparse(text) ==
  CASE text = "{}" -> Returns([location |-> Undefined])
    [] text = "{location:Berlin}" -> Returns([location |-> Str("Berlin")])
    [] text = "{location:5}" -> Returns([location |-> [kind |-> "number", n |-> 5]])
    [] text = "[e1,e2]" -> Returns(Arr(<<Entity("e1"), Entity("e2")>>))
    [] text = "[e3]" -> Returns(Arr(<<Entity("e3")>>))
    [] text = "e4" -> Returns(Entity("e4"))
    [] OTHER -> [ok |-> FALSE]

\* parseToolArguments: a text that is no JSON raises VALIDATION_ERROR
parseToolArguments(argumentsJson) ==
  IF JSONparse(argumentsJson).ok THEN JSONparse(argumentsJson)
  ELSE throwAppError("Invalid tool arguments format", "VALIDATION_ERROR")

\* AssistantTool.validateArgs with the schema of the weather tool,
\* z.object({location: z.string().optional()})
validateArgs(args) ==
  IF args.location.kind \in {"string", "undefined"} THEN Returns(args)
  ELSE throwAppError("AssistantTool Validation Error", "VALIDATION_ERROR")

\* a plain result object of a tool function, with the four keys the loop reads
Result(error, created, updated, deleted) ==
  [kind |-> "object", error |-> error, created |-> created,
   updated |-> updated, deleted |-> deleted]

\* what the bound function of a tool may do when it is called: return a
\* string, return an object (without or with entity lists, a single entity
\* or an array, with an error key), or throw
FunctionOutcomes ==
  { Returns(Str("sunny")),
    Returns(Result(Undefined, Entity("e1"), Undefined, Arr(<<Entity("e6")>>))),
    Returns(Result(Undefined, Arr(<<Entity("e2"), Entity("e3")>>), Entity("e4"), Arr(<<>>))),
    Returns(Result(Str("denied"), Entity("e5"), Undefined, Undefined)),
    [ok |-> FALSE] }

\* execute resolving with an empty string when the function fails
execute_FailureSwallowed(outcome) ==
  IF outcome.ok THEN outcome ELSE Returns(Str(""))

\* AssistantTool.execute: a failure of the function that is no AppError is
\* wrapped into INTERNAL_ERROR
execute(outcome) ==
  IF outcome.ok THEN outcome
  ELSE throwAppError("AssistantTool Call Error", "INTERNAL_ERROR")

\* the content of a tool message: a string result as it is, anything else
\* as its JSON text (a text that JSON.parse turns back into the value)
JSONstringify(value) == [kind |-> "json", value |-> value]
ToolContent(result) ==
  IF result.kind = "string" THEN [kind |-> "text", text |-> result.text]
  ELSE JSONstringify(result)

\* a tool message that does not say which call it answers
ToolMessage_NoId(id, content) == Message("tool", content)

\* {tool_call_id, role: tool, content}
ToolMessage(id, content) == [Message("tool", content) EXCEPT !.tool_call_id = id]

\* handleToolCall with validation skipped: the function is called first
handleToolCall_ExecuteFirst(toolCall, tools, outcome) ==
  [response |-> ToolMessage(toolCall.id,
                  IF execute(outcome).ok THEN ToolContent(execute(outcome).value)
                  ELSE JSONstringify(Result(Str(execute(outcome).message),
                                            Undefined, Undefined, Undefined))),
   executed |-> TRUE,
   caught |-> IF execute(outcome).ok THEN "" ELSE execute(outcome).code]

\* handleToolCall: lookup, parsing, validation and execution inside one try;
\* whatever is thrown becomes the content {error: message}.  The result holds
\* the message the call resolves with, whether the tool's function was
\* called, and the code of the error that was caught ("" when none was)
handleToolCall(toolCall, tools, outcome) ==
  LET tool == getTool(toolCall.name, tools)
      args == parseToolArguments(toolCall.arguments)
      validatedArgs == validateArgs(args.value)
      result == execute(outcome)
      thrown == IF ~tool.ok THEN tool
                ELSE IF ~args.ok THEN args
                ELSE IF ~validatedArgs.ok THEN validatedArgs
                ELSE result
  IN [response |-> ToolMessage(toolCall.id,
                     IF thrown.ok THEN ToolContent(result.value)
                     ELSE JSONstringify(Result(Str(thrown.message),
                                               Undefined, Undefined, Undefined))),
      executed |-> tool.ok /\ args.ok /\ validatedArgs.ok,
      caught |-> IF thrown.ok THEN "" ELSE thrown.code]

\* Array.isArray(x) ? x : [x]
AsArray(x) == IF x.kind = "array" THEN x.items ELSE <<x>>

NoEntities == [created |-> <<>>, updated |-> <<>>, deleted |-> <<>>]

\* extractEntitiesFromToolResponse with the test of content.error left out
extractEntitiesFromToolResponse_ErrorsToo(response) ==
  IF response.content.kind = "json"
  THEN [created |-> IF Truthy(response.content.value.created)
                    THEN AsArray(response.content.value.created) ELSE <<>>,
        updated |-> IF Truthy(response.content.value.updated)
                    THEN AsArray(response.content.value.updated) ELSE <<>>,
        deleted |-> IF Truthy(response.content.value.deleted)
                    THEN AsArray(response.content.value.deleted) ELSE <<>>]
  ELSE NoEntities

\* extractEntitiesFromToolResponse: the lists of a content that parses as
\* JSON and has no truthy error; a failure of JSON.parse is swallowed
extractEntitiesFromToolResponse(response) ==
  LET content == response.content IN
    IF content.kind = "json" /\ ~Truthy(content.value.error)
    THEN [created |-> IF Truthy(content.value.created)
                      THEN AsArray(content.value.created) ELSE <<>>,
          updated |-> IF Truthy(content.value.updated)
                      THEN AsArray(content.value.updated) ELSE <<>>,
          deleted |-> IF Truthy(content.value.deleted)
                      THEN AsArray(content.value.deleted) ELSE <<>>]
    ELSE NoEntities

\* processToolCallWithEntities: the response of handleToolCall and the
\* entities extracted from it
processToolCallWithEntities(toolCall, tools, outcome) ==
  LET handled == handleToolCall(toolCall, tools, outcome)
      entities == extractEntitiesFromToolResponse(handled.response)
  IN [response |-> handled.response, created |-> entities.created,
      updated |-> entities.updated, deleted |-> entities.deleted,
      executed |-> handled.executed, caught |-> handled.caught]

\* a reply without tool calls
FinalResult(reply) ==
  [message |-> reply, toolCalls |-> <<>>, userObjectives |-> extractUserObjectives(reply)]

\* a reply that requests tool calls
ToolRequest(toolCalls) ==
  [message |-> EmptyText, toolCalls |-> toolCalls, userObjectives |-> <<>>]

\* messages.push({role: assistant, content: aiResult.message, tool_calls})
AssistantMessage(aiResult) ==
  [Message("assistant", aiResult.message) EXCEPT !.tool_calls = aiResult.toolCalls]

\* the outcome of the model invocations of one turn: the last aiResult, the
\* messages of the first invocation, the numbers of invocations and of rounds
Conversation(aiResult, sent, invocations, rounds) ==
  [aiResult |-> aiResult, sent |-> sent, invocations |-> invocations, rounds |-> rounds]

\* executeAICall(config) once: what the model may reply to the messages
executeAICall(messages, systemMessage) ==
  {Conversation(FinalResult(reply), ensureSystemMessage(messages, systemMessage), 1, 0) :
     reply \in Replies}

RECURSIVE processToolCalls(_, _, _)
\* the loop: as long as the reply requests tool calls, every call is handled,
\* the responses are appended in the order of the tool-call list and the
\* model is invoked again
processToolCalls(messages, systemMessage, roundsLeft) ==
  executeAICall(messages, systemMessage)
  \cup
  (IF roundsLeft = 0 THEN {}
   ELSE UNION {
     {Conversation(c.aiResult, ensureSystemMessage(messages, systemMessage),
                   c.invocations + 1, c.rounds + 1) :
        c \in processToolCalls(
                messages \o <<AssistantMessage(ToolRequest(toolCalls))>>
                         \o [i \in DOMAIN toolCalls |->
                               handleToolCall(toolCalls[i], ConfiguredTools,
                                              outcomes[i]).response],
                systemMessage, roundsLeft - 1)} :
     toolCalls \in RequestedToolCalls,
     outcomes \in [1..1 -> {Returns(Str("sunny")), [ok |-> FALSE]}]})

(***************************************************************************)
(* State.                                                                  *)
(***************************************************************************)
VARIABLES
  threads,   \* table assistant_threads: id -> row
  lastId,    \* the number of thread ids the store has generated
  frags,     \* table assistant_message_embeddings: a set of rows
  updates,   \* updateThread calls in flight
  inserts,   \* createMessage calls in flight
  config,    \* the AssistantConfig the Assistant was constructed with
  turn,      \* per handler: the thread() call it is running or has finished
  turns,     \* thread() calls started so far
  faults,    \* spontaneous failures so far
  loop,      \* one call of processToolCalls, followed step by step in ToolSpec
  op,        \* the last operation of db.utils.ts called on its own in StoreSpec
  call       \* one call of executeAICall, followed step by step in AICallSpec

vars ==
  <<threads, lastId, frags, updates, inserts, config, turn, turns, faults, loop, op, call>>

\* the shape of a request: "full" has a meta block with a userId (possibly the
\* empty string) and a context the configured schema accepts; the other
\* shapes, "noMeta", "noUserId" and "badContext", lack the meta block, lack
\* the userId, or carry another context; "publicSources" and "schemaSources"
\* are full requests that carry sources, as the interface AssistantSource
\* declares them ({url, fileName}) or as assistantSourceSchema declares them
\* ({id, type, content})
NoRequest ==
  [message |-> EmptyText, userId |-> "", threadId |-> NoRef, shape |-> "full"]
NoResult == [message |-> EmptyText, toolCalls |-> <<>>, userObjectives |-> <<>>]
NoOutcome == [kind |-> "none", code |-> "", message |-> EmptyText, threadId |-> 0]
Error(code) == [kind |-> "error", code |-> code, message |-> EmptyText, threadId |-> 0]
Response(message, threadId) ==
  [kind |-> "response", code |-> "", message |-> message, threadId |-> threadId]

\* a thrown value: an AppError with its code and the keys of its context,
\* or an Error of another class (its code is undefined, "" here)
NoError == [class |-> "none", code |-> "", context |-> {}]
RawError == [class |-> "Error", code |-> "", context |-> {}]
TypeError == [class |-> "TypeError", code |-> "", context |-> {}]
Thrown(code, context) == [class |-> "AppError", code |-> code, context |-> context]

\* handleAppError: an AppError is rethrown as it is, any other error becomes
\* an AppError with the fallback code and the fallback context
handleAppError(error, code, context) ==
  IF error.class = "AppError" THEN error
  ELSE Thrown(code, context \cup {"originalMessage", "originalStack", "error"})

\* the AppErrors of db.utils.ts: thrown with the store's error for PGRST116,
\* with the arguments of the operation where it tests its result, and by
\* the catch of the operation for a failure while the result is built
StoreError(operation, code) ==
  IF code = "UNAUTHORIZED" THEN Thrown(code, {"error"})
  ELSE IF operation = "createThread" THEN Thrown(code, {"userId", "title", "error"})
  ELSE IF operation = "createMessage"
  THEN Thrown(code, {"threadId", "orderIndex", "chunkIndex", "role", "content", "error"})
  ELSE IF operation = "findSimilarMessages"
  THEN Thrown(code, {"threadId", "query", "similarity", "matchCount", "error"})
  ELSE handleAppError(RawError, code, {})

\* a failure of the embedding provider as generateEmbeddings throws it
EmbeddingError == handleAppError(RawError, "INTERNAL_ERROR", {})

\* the catch block of thread(): its fallback context reads request.meta.userId,
\* which throws a TypeError out of the catch block when there is no meta
threadCatch(error, request) ==
  IF request.shape = "noMeta" THEN TypeError
  ELSE handleAppError(error, "INTERNAL_ERROR", {"assistantTitle", "userId", "threadId"})

\* A running call keeps, beside the values of the code: floor and alone (the
\* highest order index of its thread and whether anything else was going on
\* when it started), first (the order index processRequest wrote the reply
\* at), next (the highest stored order index of the thread plus one when the
\* call first looked the order index up) and wrote (the number of fragments
\* it has persisted).

\* threadUpdatePromise of processRequest
NoUpdate == [state |-> "none", code |-> ""]

Idle ==
  [pc |-> "idle", req |-> NoRequest, thread |-> NoThread, similar |-> <<>>,
   sent |-> <<>>, invocations |-> 0, rounds |-> 0,
   aiResult |-> NoResult, orderIndex |-> 0, update |-> NoUpdate,
   calls |-> {}, existingThread |-> "none", made |-> 0,
   floor |-> 0, alone |-> FALSE, first |-> 0, next |-> 0, wrote |-> 0,
   error |-> NoError, outcome |-> NoOutcome]

\* a thread() that hands the response so far to the caller when a step fails
Failed_PartialResponse(t, error) ==
  [Idle EXCEPT !.pc = "failed", !.req = t.req, !.calls = t.calls, !.made = t.made,
               !.existingThread = t.existingThread,
               !.invocations = t.invocations,
               !.error = threadCatch(error, t.req),
               !.outcome = Response(t.aiResult.message, t.thread.id)]

\* the call has thrown: what stays known of it
Failed(t, error) ==
  [Idle EXCEPT !.pc = "failed", !.req = t.req, !.calls = t.calls, !.made = t.made,
               !.existingThread = t.existingThread,
               !.invocations = t.invocations,
               !.error = threadCatch(error, t.req),
               !.outcome = Error(threadCatch(error, t.req).code)]

\* the call has returned its response
Returned(t) ==
  [Idle EXCEPT !.pc = "done", !.req = t.req, !.calls = t.calls, !.made = t.made,
               !.existingThread = t.existingThread,
               !.invocations = t.invocations,
               !.outcome = Response(t.aiResult.message, t.thread.id)]

Called(t, kinds) == [t EXCEPT !.calls = @ \cup kinds]

\* the retrieved list and the messages sent are dropped once the turn goes on
Forget(t) == [t EXCEPT !.similar = <<>>, !.sent = <<>>]

Running(t) == t.pc \notin {"idle", "done", "failed"}

\* calls in flight whose caller has thrown go on without an owner
Orphaned(flight, p) ==
  {IF x.owner = p THEN [x EXCEPT !.owner = "orphan"] ELSE x : x \in flight}

Faults(choices) == IF faults < MaxFaults THEN choices ELSE {"none"}

Count(fault) == IF fault = "none" THEN 0 ELSE 1


\* the requests thread() is called with: every message, user id and thread
\* reference in the full shape without sources, and one request of each
\* other shape
Requests ==
  {[message |-> message, userId |-> userId, threadId |-> ref, shape |-> "full"] :
     message \in UserMessages, userId \in {"u1", ""},
     ref \in {NoRef, [kind |-> "ghost", id |-> 0], [kind |-> "malformed", id |-> 0]}
              \cup {IdRef(id) : id \in DOMAIN threads}}
  \cup {[message |-> <<Line("a")>>, userId |-> "", threadId |-> NoRef, shape |-> shape] :
          shape \in {"noMeta", "noUserId"}}
  \cup {[message |-> <<Line("a")>>, userId |-> "u1", threadId |-> NoRef, shape |-> shape] :
          shape \in {"badContext", "publicSources", "schemaSources"}}

\* the host hands a request to the first handler that is free
Before(p) == IF p = "h2" THEN {"h1"} ELSE {}

(***************************************************************************)
(* processToolCalls step by step: one call of it, followed from the first  *)
(* model invocation to its return.  Rounds after the first MaxLoopRounds   *)
(* are run but no longer written into the history, the lists and the       *)
(* counters, which keeps the state finite while the loop goes on.          *)
(***************************************************************************)
\* the texts of the replies without tool calls
LoopReplies == {<<Line("a")>>, <<Line("b")>>}

\* the tool-call lists of the replies with tool calls: a configured tool, a
\* name that is not configured, two calls, arguments that are no JSON,
\* arguments the schema refuses
LoopToolCalls ==
  { <<ToolCall("call_1", "getWeather")>>,
    <<ToolCall("call_1", "getTime")>>,
    <<ToolCallWith("call_1", "getWeather", "{location:Berlin}"),
      ToolCall("call_2", "getWeather")>>,
    <<ToolCallWith("call_1", "getWeather", "{location:"),
      ToolCall("call_2", "getWeather")>>,
    <<ToolCall("call_1", "getWeather"),
      ToolCallWith("call_2", "getWeather", "{location:5}")>> }

\* what executeAICall may resolve with inside the loop
LoopResults ==
  {FinalResult(reply) : reply \in LoopReplies}
  \cup {ToolRequest(toolCalls) : toolCalls \in LoopToolCalls}

\* what processToolCalls has returned or thrown
NoReturn ==
  [kind |-> "none", code |-> "", message |-> EmptyText,
   created |-> <<>>, updated |-> <<>>, deleted |-> <<>>]
\* the response built from the text of the reply that requested the tools
AssistantResponse_FirstReply(message, created, updated, deleted) ==
  [kind |-> "response", code |-> "", message |-> EmptyText,
   created |-> created, updated |-> updated, deleted |-> deleted]

AssistantResponse(message, created, updated, deleted) ==
  [kind |-> "response", code |-> "", message |-> message,
   created |-> created, updated |-> updated, deleted |-> deleted]

\* the call processToolCalls(config, tools, thread) before its first step
LoopStart ==
  [pc |-> "invoke",
   messages |-> <<Message("system", SystemMessage), Message("user", <<Line("a")>>)>>,
   aiResult |-> NoResult, results |-> <<>>, order |-> <<>>, thrown |-> {},
   created |-> <<>>, updated |-> <<>>, deleted |-> <<>>,
   rounds |-> 0, invocations |-> 0, outcome |-> NoReturn]

\* the rounds so far are all written into the history and the lists
Recorded(rounds) == rounds <= MaxLoopRounds

\* the calls of a list that do not reach the tool's function: their promise
\* resolves before any function that was called can complete
Immediate(toolCalls) ==
  {i \in DOMAIN toolCalls :
     ~handleToolCall(toolCalls[i], ConfiguredTools, [ok |-> FALSE]).executed}

\* the indices of a set in ascending order
RECURSIVE Ascend(_)
Ascend(S) ==
  IF S = {} THEN <<>>
  ELSE LET m == CHOOSE x \in S : \A y \in S : x <= y IN <<m>> \o Ascend(S \ {m})

\* Promise.all resolving with the values in the order of completion
PromiseAll_CompletionOrder(results, order) ==
  [k \in DOMAIN order |-> results[order[k]]]

\* Promise.all: the values in the order of the promises it was given,
\* whatever the order in which they were fulfilled
PromiseAll(results, order) ==
  [i \in 1..Cardinality(DOMAIN results) |-> results[i]]

\* created.push(...result.created) for every result in turn
RECURSIVE Pushed(_, _, _)
Pushed(list, toolCallResults, key) ==
  IF toolCallResults = <<>> THEN list
  ELSE Pushed(list \o Head(toolCallResults)[key], Tail(toolCallResults), key)

(***************************************************************************)
(* executeAICall step by step: one model invocation, streamed or not, and  *)
(* the AssistantResponse made of its result.                               *)
(***************************************************************************)
\* entity-change lines of a reply: the marker and the JSON text behind it
EntityMarkers == {"CREATED:", "UPDATED:", "DELETED:"}

EntityLine(marker, body) == [marker |-> marker, body |-> body]

\* the index of the first line with the marker, 0 when there is none
FirstLine(content, marker) ==
  IF \E i \in DOMAIN content : content[i].marker = marker
  THEN CHOOSE i \in DOMAIN content :
         /\ content[i].marker = marker
         /\ \A j \in DOMAIN content : content[j].marker = marker => i <= j
  ELSE 0

\* content.match(/CREATED:([\s\S]*?)(?=UPDATED:|DELETED:|$)/i)[1] : the rest
\* of the line behind the marker and every line after it, up to the next
\* line that has one of the two other markers or to the end of the text
Block(content, marker) ==
  LET i == FirstLine(content, marker)
      stops == {j \in DOMAIN content :
                  j > i /\ content[j].marker \in EntityMarkers \ {marker}}
      last == IF stops = {} THEN Len(content)
              ELSE (CHOOSE j \in stops : \A k \in stops : j <= k) - 1
  IN SubSeq(content, i, last)

\* the list of one marker: JSON.parse of the trimmed block, an array as it
\* is and any other value as a list of one; empty without a match, for an
\* empty block and when JSON.parse throws, as it does for a block that
\* holds more than the JSON text
ParsedBlock(content, marker) ==
  LET block == Block(content, marker)
  IN IF FirstLine(content, marker) = 0 THEN <<>>
     ELSE IF \E k \in 2..Len(block) : block[k] # Line("") THEN <<>>
     ELSE IF ~JSONparse(block[1].body).ok THEN <<>>
     ELSE AsArray(JSONparse(block[1].body).value)

extractEntityChanges(content) ==
  [created |-> ParsedBlock(content, "CREATED:"),
   updated |-> ParsedBlock(content, "UPDATED:"),
   deleted |-> ParsedBlock(content, "DELETED:")]

\* AIExecutionResult of processAIResponse(content, toolCalls)
processAIResponse(content, toolCalls) ==
  [message |-> content, toolCalls |-> toolCalls,
   userObjectives |-> extractUserObjectives(content),
   created |-> Arr(extractEntityChanges(content).created),
   updated |-> Arr(extractEntityChanges(content).updated),
   deleted |-> Arr(extractEntityChanges(content).deleted)]

\* AIExecutionResult of executeDefaultAICall for the message of a
\* completion: its object has no created, updated and deleted
executeDefaultAICall(message) ==
  [message |-> message.content, toolCalls |-> message.tool_calls,
   userObjectives |-> extractUserObjectives(message.content),
   created |-> Undefined, updated |-> Undefined, deleted |-> Undefined]

\* x || []
OrEmpty(x) == IF Truthy(x) THEN x.items ELSE <<>>

\* one entry of delta.tool_calls of a stream chunk: the index of the tool
\* call it belongs to, id and name in the first fragment of a call only,
\* and a fragment of the arguments text
ToolCallDelta(index, id, name, arguments) ==
  [index |-> index, id |-> id, name |-> name, arguments |-> arguments]

\* the delta of a stream chunk that carries tool-call entries
ToolCallsDelta(toolCalls) == [content |-> EmptyText, tool_calls |-> toolCalls]

\* final reply texts with directives: none; two objectives before a
\* CREATED array; the same array before the objectives; a CREATED block
\* that is no JSON followed by an UPDATED entity and a DELETED array
DirectiveReplies ==
  { <<Line("a")>>,
    <<Objective("a"), Objective("b"), EntityLine("CREATED:", "[e1,e2]")>>,
    <<EntityLine("CREATED:", "[e1,e2]"), Objective("a"), Objective("b")>>,
    <<EntityLine("CREATED:", "[e1"), EntityLine("UPDATED:", "e4"),
      EntityLine("DELETED:", "[e3]")>> }

\* streams that request tools: one call whose arguments come in two
\* fragments; two calls, each entry alone in the delta of its chunk; two
\* calls that start in one delta
ToolStreams ==
  { << ToolCallsDelta(<<ToolCallDelta(0, "call_1", "getWeather", "")>>),
       ToolCallsDelta(<<ToolCallDelta(0, "", "", "{location:")>>),
       ToolCallsDelta(<<ToolCallDelta(0, "", "", "Berlin}")>>) >>,
    << ToolCallsDelta(<<ToolCallDelta(0, "call_1", "getWeather", "")>>),
       ToolCallsDelta(<<ToolCallDelta(0, "", "", "{location:Berlin}")>>),
       ToolCallsDelta(<<ToolCallDelta(1, "call_2", "getWeather", "")>>),
       ToolCallsDelta(<<ToolCallDelta(1, "", "", "{}")>>) >>,
    << ToolCallsDelta(<<ToolCallDelta(0, "call_1", "getWeather", "{}"),
                        ToolCallDelta(1, "call_2", "getWeather", "{location:")>>),
       ToolCallsDelta(<<ToolCallDelta(0, "", "", ""),
                        ToolCallDelta(1, "", "", "5}")>>) >> }

\* what the model may answer an invocation with, as the stream of its
\* chunks: a text comes one line a chunk; tools are requested only when
\* tools were offered
Completions(tools) ==
  {[i \in DOMAIN content |-> [content |-> <<content[i]>>, tool_calls |-> <<>>]] :
     content \in DirectiveReplies}
  \cup (IF tools THEN ToolStreams ELSE {})

RECURSIVE ContentOf(_)
\* the content of a completion: the content of its chunks in order
ContentOf(stream) ==
  IF stream = <<>> THEN EmptyText
  ELSE Head(stream).content \o ContentOf(Tail(stream))

RECURSIVE ToolDeltas(_)
\* the tool-call entries of a completion in the order of arrival
ToolDeltas(stream) ==
  IF stream = <<>> THEN <<>>
  ELSE Head(stream).tool_calls \o ToolDeltas(Tail(stream))

RECURSIVE Arguments(_, _)
\* the arguments text of the tool call with an index: its fragments in the
\* order of arrival
Arguments(deltas, index) ==
  IF deltas = <<>> THEN ""
  ELSE (IF Head(deltas).index = index THEN Head(deltas).arguments ELSE "")
       \o Arguments(Tail(deltas), index)

\* the message of the completion as the provider assembles it for a call
\* that is not streamed: the whole content and one tool call an index
CompletionMessage(stream) ==
  LET deltas == ToolDeltas(stream)
      n == Cardinality({deltas[i].index : i \in DOMAIN deltas})
      first(k) == CHOOSE i \in DOMAIN deltas :
                    /\ deltas[i].index = k
                    /\ \A j \in DOMAIN deltas : deltas[j].index = k => i <= j
  IN [content |-> ContentOf(stream),
      tool_calls |-> [k \in 1..n |->
                        ToolCallWith(deltas[first(k - 1)].id, deltas[first(k - 1)].name,
                                     Arguments(deltas, k - 1))]]

RECURSIVE processStreamingToolCalls(_, _, _)
\* delta.tool_calls.forEach((toolCall, index) => ...) from a position on:
\* the entry at the position of the element in the array of this delta is
\* made when it is missing, and the fragment is appended to its arguments
processStreamingToolCalls(deltaToolCalls, position, toolCalls) ==
  IF position > Len(deltaToolCalls) THEN toolCalls
  ELSE LET toolCall == deltaToolCalls[position]
           made == IF position > Len(toolCalls)
                   THEN Append(toolCalls, ToolCallWith(toolCall.id, toolCall.name, ""))
                   ELSE toolCalls
       IN processStreamingToolCalls(
            deltaToolCalls, position + 1,
            [made EXCEPT ![position].arguments = @ \o toolCall.arguments])

\* a call that streams whenever a token callback is configured
UseStreaming_WithResponseFormat(aiConfig) == aiConfig.onToken

\* executeAICall and executeStreamingAICall: the completion is streamed
\* when there is a token callback and no response format
UseStreaming(aiConfig) == aiConfig.onToken /\ ~aiConfig.responseFormat

\* executeAICall has not been called
NoCall ==
  [pc |-> "idle",
   config |-> [onToken |-> FALSE, responseFormat |-> FALSE, tools |-> FALSE],
   completion |-> <<>>,
   request |-> [stream |-> FALSE, response_format |-> FALSE, tools |-> FALSE],
   stream |-> <<>>, fullContent |-> EmptyText, toolCalls |-> <<>>,
   tokens |-> <<>>, warnings |-> 0,
   result |-> [message |-> EmptyText, toolCalls |-> <<>>, userObjectives |-> <<>>,
               created |-> Undefined, updated |-> Undefined, deleted |-> Undefined],
   response |-> NoReturn]

\* no operation of db.utils.ts has been called on its own
NoOp == [name |-> "none", threadId |-> 0, signal |-> "none", tag |-> "none",
         code |-> "", flip |-> FALSE]

Init ==
  /\ threads = <<>>
  /\ lastId = 0
  /\ frags = {}
  /\ updates = {}
  /\ inserts = {}
  /\ config \in [title : Titles, tools : BOOLEAN, matchCount : {MatchCount}]
  /\ turn = [p \in Procs |-> Idle]
  /\ turns = 0
  /\ faults = 0
  /\ loop = LoopStart
  /\ op = NoOp
  /\ call = NoCall

(***************************************************************************)
(* Assistant.thread: validateRequest and getThread.                        *)
(***************************************************************************)
\* existingThread of getThread: the result of readThread, when it is called
ExistingThread(rows, request, fault) ==
  IF request.threadId.kind # "none"
  THEN readThread(rows, request.threadId, fault = "read")
  ELSE Null

\* a getThread that never looks at existingThread
getThread_AlwaysCreates(rows, newId, request, title, fault) ==
  createThread(rows, newId, request.userId, title, fault = "create")

\* getThread: the thread of the request and the table after the call
getThread(rows, newId, request, title, fault) ==
  IF ExistingThread(rows, request, fault).tag # "null"
  THEN [res |-> ExistingThread(rows, request, fault), rows |-> rows]
  ELSE createThread(rows, newId, request.userId, title, fault = "create")

\* no earlier call is still running and none of its store calls is in flight
Quiet == /\ \A q \in Procs : ~Running(turn[q])
         /\ inserts = {}
         /\ updates = {}

\* thread() is called: validateRequest, then await getThread
Start(p) ==
  /\ ~Running(turn[p])
  /\ \A q \in Before(p) : Running(turn[q])
  /\ turns < MaxTurns
  /\ \E request \in Requests, fault \in Faults({"none", "read", "create"}) :
       LET ref == request.threadId
           existing == ExistingThread(threads, request, fault)
           out == getThread(threads, lastId + 1, request, config.title, fault)
           t == [Idle EXCEPT !.req = request]
           called == [Called(t, {"store"}) EXCEPT
                        !.existingThread = IF ref.kind = "none" THEN "none" ELSE existing.tag,
                        !.made = IF out.rows # threads THEN lastId + 1 ELSE 0]
       IN IF ~validateRequest(request)
          THEN /\ fault = "none"
               /\ turn' = [turn EXCEPT ![p] = Failed(t, Thrown("VALIDATION_ERROR", {"validation", "error"}))]
               /\ UNCHANGED <<threads, lastId, faults>>
          ELSE /\ fault = "read" => ref.kind # "none"
               /\ fault = "create" => existing.tag = "null"
               /\ turn' = [turn EXCEPT ![p] =
                    IF out.res.tag = "ok"
                    THEN [called EXCEPT
                            !.pc = "prepare",
                            !.thread = out.res.thread,
                            !.floor = MaxOrderIndex(frags, out.res.thread.id),
                            !.alone = Quiet]
                    ELSE Failed(called,
                                StoreError(IF existing.tag = "error" THEN "readThread"
                                           ELSE "createThread", out.res.code))]
               /\ threads' = out.rows
               /\ lastId' = IF out.rows # threads THEN lastId + 1 ELSE lastId
               /\ faults' = faults + Count(fault)
  /\ turns' = turns + 1
  /\ UNCHANGED <<frags, updates, inserts, config, loop, op, call>>

(***************************************************************************)
(* prepareProcess and the model invocations of processRequest.  The model  *)
(* invocations and the tool calls touch nothing of the thread store, so    *)
(* they are taken in the step of the retrieval that precedes them.         *)
(***************************************************************************)
\* updateThread call of the no-tools path, started and not awaited
UpdateCall(p, t, userObjectives) ==
  [owner |-> p, threadId |-> t.thread.id, userObjectives |-> userObjectives]

PrepareStep(p) ==
  /\ turn[p].pc = "prepare"
  /\ \E fault \in Faults({"none", "embedding", "store", "model"}) :
       LET t == turn[p]
       IN /\ faults' = faults + Count(fault)
          /\ \E similarMessages \in findSimilarMessages(frags, t.thread.id, t.req.message,
                                                        SimNum, SimDen, config.matchCount) :
               LET messages == prepareProcess(t.req, t.thread, similarMessages)
               IN \E c \in (IF config.tools
                            THEN processToolCalls(messages, SystemMessage, MaxRounds)
                            ELSE executeAICall(messages, SystemMessage)) :
                    LET replied ==
                          [Called(t, {"embedding", "store", "model"}) EXCEPT
                             !.similar = similarMessages,
                             !.sent = c.sent,
                             !.aiResult = c.aiResult,
                             !.invocations = c.invocations,
                             !.rounds = c.rounds]
                        launch == ~config.tools /\ c.aiResult.userObjectives # <<>>
                    IN CASE fault = "embedding" ->
                              /\ turn' = [turn EXCEPT ![p] =
                                   Failed(Called(t, {"embedding"}), EmbeddingError)]
                              /\ UNCHANGED updates
                         [] fault = "store" ->
                              /\ turn' = [turn EXCEPT ![p] =
                                   Failed(Called(t, {"embedding", "store"}),
                                          StoreError("findSimilarMessages", "NOT_FOUND"))]
                              /\ UNCHANGED updates
                         [] fault = "model" ->
                              /\ turn' = [turn EXCEPT ![p] =
                                   Failed([Called(t, {"embedding", "store", "model"})
                                             EXCEPT !.invocations = 1],
                                          handleAppError(RawError, "INTERNAL_ERROR", {}))]
                              /\ UNCHANGED updates
                         [] OTHER ->
                              /\ turn' = [turn EXCEPT ![p] =
                                   [replied EXCEPT
                                      !.pc = IF ~config.tools THEN "step4"
                                             ELSE IF c.aiResult.userObjectives # <<>>
                                                  THEN "objectives" ELSE "postProcess",
                                      !.update = IF launch
                                                 THEN [state |-> "pending", code |-> ""]
                                                 ELSE NoUpdate]]
                              /\ updates' = IF launch
                                            THEN updates \cup
                                                 {UpdateCall(p, t, c.aiResult.userObjectives)}
                                            ELSE updates
  /\ UNCHANGED <<threads, lastId, frags, inserts, config, turns, loop, op, call>>

\* processToolCalls: await updateThread inside try/catch, the error is logged
ObjectivesStep(p) ==
  /\ turn[p].pc = "objectives"
  /\ \E fault \in Faults({"none", "store"}) :
       /\ threads' = updateThread(threads, turn[p].thread.id,
                                  turn[p].aiResult.userObjectives, fault = "store").rows
       /\ faults' = faults + Count(fault)
  /\ turn' = [turn EXCEPT ![p] = [Forget(@) EXCEPT !.pc = "postProcess"]]
  /\ UNCHANGED <<lastId, frags, updates, inserts, config, turns, loop, op, call>>

(***************************************************************************)
(* processRequest without tools: the reply is embedded and the next order  *)
(* index is read while the objectives update is in flight; then the reply  *)
(* is persisted and the update is awaited.                                 *)
(***************************************************************************)
\* await Promise.all([embeddingPromise, orderIndexPromise])
Step4Await(p) ==
  /\ turn[p].pc = "step4"
  /\ \E fault \in Faults({"none", "embedding", "store"}) :
       LET t == Called(Forget(turn[p]), {"embedding", "store"})
       IN /\ faults' = faults + Count(fault)
          /\ IF fault = "embedding"
             THEN /\ turn' = [turn EXCEPT ![p] = Failed(t, EmbeddingError)]
                  /\ updates' = Orphaned(updates, p)
             ELSE /\ turn' = [turn EXCEPT ![p] =
                       [t EXCEPT !.pc = "createMessage",
                                 !.orderIndex = getNextOrderIndex(frags, t.thread.id,
                                                                  fault = "store"),
                                 !.first = getNextOrderIndex(frags, t.thread.id,
                                                             fault = "store"),
                                 !.next = MaxOrderIndex(frags, t.thread.id) + 1]]
                  /\ UNCHANGED updates
  /\ UNCHANGED <<threads, lastId, frags, inserts, config, turns, loop, op, call>>

\* await createMessage(thread.id, orderIndex, 0, assistant, message, embedding)
CreateMessageStep(p) ==
  /\ turn[p].pc = "createMessage"
  /\ \E fault \in Faults({"none", "store"}) :
       LET t == turn[p]
           out == createMessage(frags, threads,
                                Row(t.thread.id, t.orderIndex, 0, "assistant",
                                    t.aiResult.message, generateEmbeddings(t.aiResult.message)),
                                fault = "store")
       IN /\ faults' = faults + Count(fault)
          /\ frags' = out.table
          /\ IF out.code = ""
             THEN /\ turn' = [turn EXCEPT ![p] = [t EXCEPT !.pc = "postProcess",
                                                           !.wrote = @ + 1]]
                  /\ UNCHANGED updates
             ELSE /\ turn' = [turn EXCEPT ![p] =
                          Failed(t, StoreError("createMessage", out.code))]
                  /\ updates' = Orphaned(updates, p)
  /\ UNCHANGED <<threads, lastId, inserts, config, turns, loop, op, call>>

\* an updateThread call in flight reaches the store; its caller, if it still
\* waits, gets the result
LandUpdate(u) ==
  /\ u \in updates
  /\ \E fault \in Faults({"none", "store"}) :
       LET out == updateThread(threads, u.threadId, u.userObjectives, fault = "store")
       IN /\ faults' = faults + Count(fault)
          /\ threads' = out.rows
          /\ turn' = [q \in Procs |->
                        IF q = u.owner
                        THEN [turn[q] EXCEPT !.update =
                                IF out.res.tag = "ok"
                                THEN [state |-> "resolved", code |-> ""]
                                ELSE [state |-> "rejected", code |-> out.res.code]]
                        ELSE turn[q]]
  /\ updates' = updates \ {u}
  /\ UNCHANGED <<lastId, frags, inserts, config, turns, loop, op, call>>

(***************************************************************************)
(* postProcess: the user message and the reply are split, embedded and     *)
(* persisted; the createMessage calls of both messages run concurrently.   *)
(***************************************************************************)
\* an updateMessages that persists the first chunk of a text only
updateMessages_FirstChunkOnly(owner, text, threadId, role, orderIndex, floor, alone) ==
  {[owner |-> owner, floor |-> floor, alone |-> alone,
    row |-> Row(threadId, orderIndex, 0, role,
                generateEmbeddingChunks(text)[1].content,
                generateEmbeddingChunks(text)[1].embedding)]}

\* the createMessage calls updateMessages starts for the chunks of a text
updateMessages(owner, text, threadId, role, orderIndex, floor, alone) ==
  {[owner |-> owner, floor |-> floor, alone |-> alone,
    row |-> Row(threadId, orderIndex, i - 1, role,
                generateEmbeddingChunks(text)[i].content,
                generateEmbeddingChunks(text)[i].embedding)] :
     i \in DOMAIN generateEmbeddingChunks(text)}

\* await threadUpdatePromise, build the response, then postProcess up to
\* the start of the createMessage calls
PostProcessStep(p) ==
  /\ turn[p].pc = "postProcess"
  /\ turn[p].update.state # "pending"
  /\ IF turn[p].update.state = "rejected"
     THEN /\ turn' = [turn EXCEPT ![p] =
                  Failed(@, StoreError("updateThread", @.update.code))]
          /\ UNCHANGED <<inserts, faults>>
     ELSE \E fault \in Faults({"none", "store", "embedUser", "embedAssistant"}) :
            LET t == Called(Forget(turn[p]), {"embedding", "store"})
                orderIndex == getNextOrderIndex(frags, t.thread.id, fault = "store")
                failed == fault \in {"embedUser", "embedAssistant"}
                owner == IF failed THEN "orphan" ELSE p
                user == IF fault = "embedUser" THEN {}
                        ELSE updateMessages(owner, t.req.message, t.thread.id, "user",
                                            orderIndex, t.floor, t.alone)
                assistant == IF fault = "embedAssistant" THEN {}
                             ELSE updateMessages(owner, t.aiResult.message, t.thread.id,
                                                 "assistant", orderIndex + 1, t.floor, t.alone)
            IN /\ faults' = faults + Count(fault)
               /\ inserts' = inserts \cup user \cup assistant
               /\ turn' = [turn EXCEPT ![p] =
                            IF failed THEN Failed(t, EmbeddingError)
                            ELSE [t EXCEPT !.pc = "persisting", !.orderIndex = orderIndex,
                                           !.next = IF config.tools
                                                    THEN MaxOrderIndex(frags, t.thread.id) + 1
                                                    ELSE @]]
  /\ UNCHANGED <<threads, lastId, frags, updates, config, turns, loop, op, call>>

\* a createMessage call in flight reaches the store.  Promise.all rejects
\* with the first failure: the turn fails and its other calls go on; when
\* the last call has succeeded thread() returns the response
LandInsert(r) ==
  /\ r \in inserts
  /\ \E fault \in Faults({"none", "store"}) :
       LET out == createMessage(frags, threads, r.row, fault = "store")
           rest == inserts \ {r}
       IN /\ faults' = faults + Count(fault)
          /\ frags' = out.table
          /\ IF r.owner = "orphan"
             THEN /\ inserts' = rest
                  /\ UNCHANGED turn
             ELSE IF out.code # ""
             THEN /\ inserts' = Orphaned(rest, r.owner)
                  /\ turn' = [turn EXCEPT ![r.owner] =
                               Failed(@, StoreError("createMessage", out.code))]
             ELSE /\ inserts' = rest
                  /\ turn' = [turn EXCEPT ![r.owner] =
                               IF \E x \in rest : x.owner = r.owner
                               THEN [@ EXCEPT !.wrote = @ + 1] ELSE Returned(@)]
  /\ UNCHANGED <<threads, lastId, updates, config, turns, loop, op, call>>

Next ==
  \/ \E p \in Procs : Start(p)
  \/ \E p \in Procs : PrepareStep(p)
  \/ \E p \in Procs : ObjectivesStep(p)
  \/ \E p \in Procs : Step4Await(p)
  \/ \E p \in Procs : CreateMessageStep(p)
  \/ \E p \in Procs : PostProcessStep(p)
  \/ \E u \in updates : LandUpdate(u)
  \/ \E r \in inserts : LandInsert(r)

Spec == Init /\ [][Next]_vars

(***************************************************************************)
(* The steps of processToolCalls.                                          *)
(***************************************************************************)
\* await executeAICall and messages.push of the reply: the reply has no tool
\* calls (the loop is left and the response returned), or it has (the calls
\* of the round are started), or the invocation fails
LoopInvoke ==
  /\ loop.pc = "invoke"
  /\ \/ \E aiResult \in LoopResults :
          LET rounds == IF aiResult.toolCalls = <<>> THEN loop.rounds
                        ELSE Min(loop.rounds + 1, MaxLoopRounds + 1)
              toolCalls == aiResult.toolCalls
          IN loop' = [loop EXCEPT
               !.pc = IF toolCalls = <<>> THEN "returned" ELSE "round",
               !.aiResult = aiResult,
               !.messages = IF Recorded(rounds)
                            THEN Append(@, AssistantMessage(aiResult)) ELSE @,
               !.rounds = rounds,
               !.invocations = Min(@ + 1, MaxLoopRounds + 2),
               !.results = [i \in Immediate(toolCalls) |->
                              processToolCallWithEntities(
                                toolCalls[i], ConfiguredTools, [ok |-> FALSE])],
               !.order = Ascend(Immediate(toolCalls)),
               !.outcome = IF toolCalls = <<>>
                           THEN AssistantResponse(aiResult.message, loop.created,
                                                  loop.updated, loop.deleted)
                           ELSE @]
     \/ loop' = [loop EXCEPT !.pc = "failed", !.results = <<>>, !.order = <<>>,
                             !.outcome = [NoReturn EXCEPT !.kind = "error",
                                                          !.code = "INTERNAL_ERROR"]]
  /\ UNCHANGED <<threads, lastId, frags, updates, inserts, config, turn, turns, faults,
               op, call>>

\* the function of one running call completes, in any order: it returns or throws
LoopComplete(i) ==
  /\ loop.pc = "round"
  /\ i \in DOMAIN loop.aiResult.toolCalls
  /\ i \notin DOMAIN loop.results
  /\ \E outcome \in FunctionOutcomes :
       loop' = [loop EXCEPT
         !.results = @ @@ (i :> processToolCallWithEntities(
                                  loop.aiResult.toolCalls[i], ConfiguredTools, outcome)),
         !.order = Append(@, i),
         !.thrown = IF outcome.ok THEN @ ELSE @ \cup {i}]
  /\ UNCHANGED <<threads, lastId, frags, updates, inserts, config, turn, turns, faults,
               op, call>>

\* Promise.all has resolved: the entities are pushed, the responses appended
LoopCollect ==
  /\ loop.pc = "round"
  /\ DOMAIN loop.results = DOMAIN loop.aiResult.toolCalls
  /\ LET toolCallResults == PromiseAll(loop.results, loop.order)
         toolResponses == [i \in DOMAIN toolCallResults |-> toolCallResults[i].response]
     IN loop' = [loop EXCEPT
          !.pc = "invoke",
          !.results = <<>>,
          !.thrown = {},
          !.created = IF Recorded(loop.rounds)
                      THEN Pushed(@, toolCallResults, "created") ELSE @,
          !.updated = IF Recorded(loop.rounds)
                      THEN Pushed(@, toolCallResults, "updated") ELSE @,
          !.deleted = IF Recorded(loop.rounds)
                      THEN Pushed(@, toolCallResults, "deleted") ELSE @,
          !.messages = IF Recorded(loop.rounds) THEN @ \o toolResponses ELSE @]
  /\ UNCHANGED <<threads, lastId, frags, updates, inserts, config, turn, turns, faults,
               op, call>>

LoopInit ==
  /\ Init
  /\ config = [title |-> "Assistant", tools |-> TRUE, matchCount |-> MatchCount]

LoopNext ==
  \/ LoopInvoke
  \/ \E i \in 1..2 : LoopComplete(i)
  \/ LoopCollect

\* the runtime runs every continuation that is ready: a loop that can take
\* a step takes one
ToolSpec == LoopInit /\ [][LoopNext]_vars /\ WF_vars(LoopNext)

(***************************************************************************)
(* The operations of db.utils.ts, called one by one on the store.          *)
(***************************************************************************)
\* threads created in StoreSpec
MaxThreads == 2

\* order indices of the rows written in StoreSpec
MaxOrder == 2

\* what the store answers a request with: its data, the error PGRST116, or
\* an error with another code
Signals == {"none", "PGRST116", "other"}

\* the operation just called: its name, the thread id it was given, the
\* answer of the store and what the operation did with it (tag "ok" for a
\* value, "null" for null, "error" for a thrown AppError with its code);
\* flip changes with every call
Called_(name, threadId, signal, res) ==
  [name |-> name, threadId |-> threadId, signal |-> signal, tag |-> res.tag,
   code |-> res.code, flip |-> ~op.flip]

\* deleteThread: PGRST116 is thrown as UNAUTHORIZED, any other answer of the
\* store makes it return true; the deleted row takes the fragments that
\* reference it with it (ON DELETE CASCADE)
deleteThread(rows, table, id, signal) ==
  IF signal = "PGRST116" THEN [res |-> Throw("UNAUTHORIZED"), rows |-> rows, table |-> table]
  ELSE IF signal = "other" THEN [res |-> Ok(NoThread), rows |-> rows, table |-> table]
  ELSE [res |-> Ok(NoThread),
        rows |-> [i \in DOMAIN rows \ {id} |-> rows[i]],
        table |-> {f \in table : f.thread_id # id}]

OpCreateThread ==
  /\ lastId < MaxThreads
  /\ \E signal \in Signals :
       LET out == IF signal = "PGRST116"
                  THEN [res |-> Throw("UNAUTHORIZED"), rows |-> threads]
                  ELSE createThread(threads, lastId + 1, "u1", config.title, signal = "other")
       IN /\ threads' = out.rows
          /\ lastId' = IF out.rows # threads THEN lastId + 1 ELSE lastId
          /\ op' = Called_("createThread", lastId + 1, signal, out.res)
  /\ UNCHANGED <<frags, updates, inserts, config, turn, turns, faults, loop, call>>

OpReadThread ==
  /\ \E id \in 1..MaxThreads, signal \in Signals :
       op' = Called_("readThread", id, signal,
                     IF signal = "PGRST116" THEN Throw("UNAUTHORIZED")
                     ELSE readThread(threads, IdRef(id), signal = "other"))
  /\ UNCHANGED <<threads, lastId, frags, updates, inserts, config, turn, turns, faults,
                 loop, call>>

OpUpdateThread ==
  /\ \E id \in 1..MaxThreads, signal \in Signals :
       LET out == IF signal = "PGRST116"
                  THEN [res |-> Throw("UNAUTHORIZED"), rows |-> threads]
                  ELSE updateThread(threads, id, <<"a">>, signal = "other")
       IN /\ threads' = out.rows
          /\ op' = Called_("updateThread", id, signal, out.res)
  /\ UNCHANGED <<lastId, frags, updates, inserts, config, turn, turns, faults, loop, call>>

OpDeleteThread ==
  /\ \E id \in 1..MaxThreads, signal \in Signals :
       LET out == deleteThread(threads, frags, id, signal)
       IN /\ threads' = out.rows
          /\ frags' = out.table
          /\ op' = Called_("deleteThread", id, signal, out.res)
  /\ UNCHANGED <<lastId, updates, inserts, config, turn, turns, faults, loop, call>>

OpCreateMessage ==
  /\ \E id \in 1..MaxThreads, orderIndex \in 1..MaxOrder, signal \in Signals :
       LET row == Row(id, orderIndex, 0, "user", <<Line("a")>>,
                      generateEmbeddings(<<Line("a")>>))
           out == IF signal = "PGRST116"
                  THEN [code |-> "UNAUTHORIZED", table |-> frags]
                  ELSE createMessage(frags, threads, row, signal = "other")
       IN /\ frags' = out.table
          /\ op' = Called_("createMessage", id, signal,
                           IF out.code = "" THEN Ok(NoThread) ELSE Throw(out.code))
  /\ UNCHANGED <<threads, lastId, updates, inserts, config, turn, turns, faults, loop, call>>

\* the number getNextOrderIndex returns is not kept, only that it returned
OpGetNextOrderIndex ==
  /\ \E id \in 1..MaxThreads, signal \in Signals :
       op' = Called_("getNextOrderIndex", id, signal,
                     IF signal = "PGRST116" THEN Throw("UNAUTHORIZED")
                     ELSE IF getNextOrderIndex(frags, id, signal = "other") >= 1
                          THEN Ok(NoThread) ELSE Null)
  /\ UNCHANGED <<threads, lastId, frags, updates, inserts, config, turn, turns, faults,
                 loop, call>>

\* findSimilarMessages throws NOT_FOUND for every error of the rpc
OpFindSimilarMessages ==
  /\ \E id \in 1..MaxThreads, signal \in Signals :
       op' = Called_("findSimilarMessages", id, signal,
                     IF signal # "none" THEN Throw("NOT_FOUND")
                     ELSE IF findSimilarMessages(frags, id, <<Line("a")>>, SimNum, SimDen,
                                                 config.matchCount) # {}
                          THEN Ok(NoThread) ELSE Null)
  /\ UNCHANGED <<threads, lastId, frags, updates, inserts, config, turn, turns, faults,
                 loop, call>>

StoreNext ==
  \/ OpCreateThread
  \/ OpReadThread
  \/ OpUpdateThread
  \/ OpDeleteThread
  \/ OpCreateMessage
  \/ OpGetNextOrderIndex
  \/ OpFindSimilarMessages

StoreSpec == Init /\ [][StoreNext]_vars

(***************************************************************************)
(* The steps of executeAICall and of the response made of its result.      *)
(***************************************************************************)
\* executeAICall(config) up to the request to the provider; with a token
\* callback and a response format executeStreamingAICall warns and calls
\* executeDefaultAICall without the callback
CallBegin ==
  /\ call.pc = "idle"
  /\ \E aiConfig \in [onToken : BOOLEAN, responseFormat : BOOLEAN, tools : BOOLEAN] :
       \E completion \in Completions(aiConfig.tools) :
         call' = [call EXCEPT
                    !.pc = IF UseStreaming(aiConfig) THEN "streaming" ELSE "default",
                    !.config = aiConfig,
                    !.completion = completion,
                    !.request = [stream |-> UseStreaming(aiConfig),
                                 response_format |->
                                   ~UseStreaming(aiConfig) /\ aiConfig.responseFormat,
                                 tools |-> aiConfig.tools],
                    !.stream = IF UseStreaming(aiConfig) THEN completion ELSE <<>>,
                    !.warnings = IF aiConfig.onToken /\ ~UseStreaming(aiConfig)
                                 THEN 1 ELSE 0]
  /\ UNCHANGED <<threads, lastId, frags, updates, inserts, config, turn, turns, faults,
                 loop, op>>

\* for await (const chunk of stream): one chunk
StreamChunk ==
  /\ call.pc = "streaming"
  /\ call.stream # <<>>
  /\ LET delta == Head(call.stream)
     IN call' = [call EXCEPT
                   !.stream = Tail(@),
                   !.fullContent = @ \o delta.content,
                   !.tokens = IF delta.content # EmptyText
                              THEN Append(@, delta.content) ELSE @,
                   !.toolCalls = processStreamingToolCalls(delta.tool_calls, 1, @)]
  /\ UNCHANGED <<threads, lastId, frags, updates, inserts, config, turn, turns, faults,
                 loop, op>>

\* the stream has ended: return processAIResponse(fullContent, toolCalls)
StreamEnd ==
  /\ call.pc = "streaming"
  /\ call.stream = <<>>
  /\ call' = [call EXCEPT
                !.pc = "resolved",
                !.result = processAIResponse(call.fullContent, call.toolCalls)]
  /\ UNCHANGED <<threads, lastId, frags, updates, inserts, config, turn, turns, faults,
                 loop, op>>

\* executeDefaultAICall: the completion has arrived
DefaultComplete ==
  /\ call.pc = "default"
  /\ call' = [call EXCEPT
                !.pc = "resolved",
                !.result = executeDefaultAICall(CompletionMessage(call.completion))]
  /\ UNCHANGED <<threads, lastId, frags, updates, inserts, config, turn, turns, faults,
                 loop, op>>

\* thread() makes the AssistantResponse of a final reply: processRequest
\* from the lists of the result, processToolCalls, whose loop was not
\* entered, from its own lists, which are empty; a reply that requests
\* tools goes into the loop
Respond ==
  /\ call.pc = "resolved"
  /\ ~call.config.responseFormat
  /\ call' = [call EXCEPT
                !.pc = IF call.result.toolCalls # <<>> THEN "toolCalls" ELSE "returned",
                !.response =
                  IF call.result.toolCalls # <<>> THEN NoReturn
                  ELSE IF call.config.tools
                  THEN AssistantResponse(call.result.message, <<>>, <<>>, <<>>)
                  ELSE AssistantResponse(call.result.message,
                                         OrEmpty(call.result.created),
                                         OrEmpty(call.result.updated),
                                         OrEmpty(call.result.deleted))]
  /\ UNCHANGED <<threads, lastId, frags, updates, inserts, config, turn, turns, faults,
                 loop, op>>

AICallNext ==
  \/ CallBegin
  \/ StreamChunk
  \/ StreamEnd
  \/ DefaultComplete
  \/ Respond

AICallSpec == Init /\ [][AICallNext]_vars

(***************************************************************************)
(* Properties.                                                             *)
(***************************************************************************)
\* the thread() calls that have been made, running or finished
Calls == {p \in Procs : turn[p].pc # "idle"}

\* C1: a thread() call with an empty message string has failed with
\* VALIDATION_ERROR, and it has made no thread-store call, no embedding call
\* and no model call
C1_EmptyMessageRejected ==
  \A p \in Calls :
    turn[p].req.message = EmptyText =>
      /\ turn[p].pc = "failed"
      /\ turn[p].outcome = Error("VALIDATION_ERROR")
      /\ turn[p].calls = {}
      /\ turn[p].invocations = 0

\* a call with an empty message and a userId has been rejected
C1_Witness ==
  \E p \in Procs :
    /\ turn[p].pc = "failed"
    /\ turn[p].req.message = EmptyText
    /\ turn[p].req.userId # ""
    /\ turn[p].outcome.code = "VALIDATION_ERROR"

\* C2: a call whose supplied threadId readThread resolved to a stored thread
\* works on that thread and has created none; the response it returns
\* carries the supplied threadId.  This holds for every call of a sequence
\* of calls on the thread
C2_SuppliedThreadUsed ==
  \A p \in Calls :
    turn[p].existingThread = "ok" =>
      /\ turn[p].made = 0
      /\ Running(turn[p]) => turn[p].thread.id = turn[p].req.threadId.id
      /\ turn[p].pc = "done" =>
           /\ turn[p].outcome.kind = "response"
           /\ turn[p].outcome.threadId = turn[p].req.threadId.id

\* the second of two sequential calls has returned a response for the
\* thread the first one created
C2_Witness ==
  \E p \in Procs :
    /\ turns = 2
    /\ turn[p].pc = "done"
    /\ turn[p].existingThread = "ok"
    /\ turn[p].req.threadId = IdRef(1)
    /\ turn[p].outcome.threadId = 1
    /\ \A q \in Procs : ~Running(turn[q])

\* C3: as long as nothing fails spontaneously, a call that supplies a
\* threadId of no stored thread does not fail in thread resolution: it has
\* created a new thread, and the response it returns carries the id of that
\* thread, not the supplied one
C3_UnknownThreadCreatesNew ==
  \A p \in Calls :
    (/\ faults = 0
     /\ validateRequest(turn[p].req)
     /\ turn[p].req.threadId.kind \in {"ghost", "malformed"}) =>
      /\ turn[p].made # 0
      /\ turn[p].pc = "done" => turn[p].outcome.threadId = turn[p].made

\* C4: as long as nothing fails spontaneously, a call without threadId that
\* has returned created one thread; the returned threadId is not empty, and
\* readThread resolves it to that thread, owned by the request's userId and
\* titled with the title of the configuration
C4_NewThreadResolvable ==
  \A p \in Calls :
    (/\ faults = 0
     /\ turn[p].pc = "done"
     /\ turn[p].req.threadId = NoRef) =>
      /\ turn[p].made # 0
      /\ turn[p].outcome.threadId = turn[p].made
      /\ readThread(threads, IdRef(turn[p].outcome.threadId), FALSE).tag = "ok"
      /\ readThread(threads, IdRef(turn[p].outcome.threadId), FALSE).thread.userId
           = turn[p].req.userId
      /\ readThread(threads, IdRef(turn[p].outcome.threadId), FALSE).thread.title
           = <<config.title>>

\* C5: no two persisted fragments of one thread have the same pair of
\* order index and chunk index, whatever turns have run and however they
\* interleaved
C5_ChunkKeyUnique ==
  \A f, g \in frags :
    (/\ f.thread_id = g.thread_id
     /\ f.order_index = g.order_index
     /\ f.chunk_index = g.chunk_index) => f = g

\* the objectives of every stored thread are in the encoding readThread reads
ObjectivesReadable == \A id \in DOMAIN threads : threads[id].user_objectives.json = "string"

\* two turns met on one thread: without any spontaneous failure one of them
\* failed in the store although fragments of the thread were persisted
C5_Witness ==
  \E p \in Procs :
    /\ faults = 0
    /\ ObjectivesReadable
    /\ turn[p].pc = "failed"
    /\ turn[p].outcome.code = "DATABASE_ERROR"
    /\ turn[p].req.threadId.kind = "id"
    /\ \E f \in frags : f.thread_id = turn[p].req.threadId.id

Query(p) == generateEmbeddings(turn[p].req.message)

\* C7: the list findSimilarMessages returned to a turn holds no fragment
\* whose similarity to the query is at or below the threshold, no more
\* than matchCount fragments, and only stored fragments of the turn's thread
C7_RetrievedWithinLimits ==
  \A p \in Procs :
    /\ Len(turn[p].similar) <= config.matchCount
    /\ \A i \in DOMAIN turn[p].similar :
         /\ turn[p].similar[i].threadId = turn[p].thread.id
         /\ SimilarityAbove(turn[p].similar[i].embedding, Query(p), SimNum, SimDen)
         /\ \E f \in frags :
              /\ f.thread_id = turn[p].similar[i].threadId
              /\ f.order_index = turn[p].similar[i].orderIndex
              /\ f.chunk_index = turn[p].similar[i].chunkIndex
              /\ f.content = turn[p].similar[i].content

\* a search returned matchCount fragments of a thread that holds more
\* fragments above the threshold and a fragment that is not above it
C7_Witness ==
  \E p \in Procs :
    /\ Len(turn[p].similar) = config.matchCount
    /\ \E f \in frags :
         /\ f.thread_id = turn[p].thread.id
         /\ ~SimilarityAbove(f.embedding, Query(p), SimNum, SimDen)
    /\ Cardinality({f \in frags :
                      /\ f.thread_id = turn[p].thread.id
                      /\ SimilarityAbove(f.embedding, Query(p), SimNum, SimDen)})
         > config.matchCount

Ascending(list) ==
  \A i, j \in DOMAIN list : i < j => list[i].orderIndex <= list[j].orderIndex

\* the messages between the first and the last one of history are the
\* fragments of list, each once, in ascending order index
FragmentsAscending(history, list) ==
  /\ Len(history) = Len(list) + 2
  /\ \E order \in [DOMAIN list -> DOMAIN list] :
       /\ \A i, j \in DOMAIN list : i # j => order[i] # order[j]
       /\ Ascending([i \in DOMAIN list |-> list[order[i]]])
       /\ \A i \in DOMAIN list :
            /\ history[i + 1].role = list[order[i]].role
            /\ history[i + 1].content = list[order[i]].content

\* C8 as stated: the list findSimilarMessages returns is sorted ascending by
\* order index
C8_ReturnedListSorted == \A p \in Procs : Ascending(turn[p].similar)

\* C8 amended: the list findSimilarMessages returns is in similarity rank
\* order, nearest first; the history prepareProcess assembles from it holds
\* the returned fragments sorted ascending by order index
C8_HistorySorted ==
  \A p \in Procs :
    turn[p].sent # <<>> =>
      /\ \A i, j \in DOMAIN turn[p].similar :
           i < j => ~Nearer(turn[p].similar[j].embedding, turn[p].similar[i].embedding,
                            Query(p))
      /\ FragmentsAscending(turn[p].sent, turn[p].similar)

\* a list went into a history that was returned with a fragment in front of
\* a fragment of a lower order index, the first strictly nearer to the query
C8_Witness ==
  \E p \in Procs :
    /\ turn[p].sent # <<>>
    /\ \E i, j \in DOMAIN turn[p].similar :
         /\ i < j
         /\ turn[p].similar[i].orderIndex > turn[p].similar[j].orderIndex
         /\ Nearer(turn[p].similar[i].embedding, turn[p].similar[j].embedding, Query(p))

\* C9: the history of the turn's model invocation begins with a system
\* message, which is its only one, goes on with the retrieved fragments in
\* ascending order index and ends with the new user message
C9_HistoryShape ==
  \A p \in Procs :
    turn[p].sent # <<>> =>
      /\ turn[p].sent[1].role = "system"
      /\ \A i \in 2..Len(turn[p].sent) : turn[p].sent[i].role # "system"
      /\ turn[p].sent[Len(turn[p].sent)].role = "user"
      /\ turn[p].sent[Len(turn[p].sent)].content = turn[p].req.message
      /\ FragmentsAscending(turn[p].sent, turn[p].similar)

\* a history with two retrieved fragments has been sent
C9_Witness ==
  \E p \in Procs :
    /\ turn[p].invocations >= 1
    /\ Len(turn[p].sent) = 4
    /\ Len(turn[p].similar) = 2

\* the fragments of the thread of p that are above the threshold
Above(p) ==
  {f \in frags : /\ f.thread_id = turn[p].thread.id
                 /\ SimilarityAbove(f.embedding, Query(p), SimNum, SimDen)}

ChunkRows(threadId, text, role, orderIndex) ==
  {Row(threadId, orderIndex, i - 1, role, splitTextIntoChunks(text)[i],
       generateEmbeddings(splitTextIntoChunks(text)[i])) :
     i \in DOMAIN splitTextIntoChunks(text)}

\* C18: postProcess persists the chunks of the user message at the order
\* index n that is the thread's next order index when it is looked up, and
\* the chunks of the reply at n + 1, every chunk with the role of its
\* message and the chunk indices 0..k-1 in the order of the splitter
C18_StepFiveIndices ==
  [][\A p \in Procs :
       (turn[p].pc = "postProcess" /\ turn'[p].pc = "persisting") =>
         {r.row : r \in inserts' \ inserts} =
           ChunkRows(turn[p].thread.id, turn[p].req.message, "user",
                     MaxOrderIndex(frags, turn[p].thread.id) + 1)
           \cup ChunkRows(turn[p].thread.id, turn[p].aiResult.message, "assistant",
                          MaxOrderIndex(frags, turn[p].thread.id) + 2)]_vars

\* C19: when step 4 of a turn is over, with tools configured or not, the
\* store holds the reply as one fragment of the thread with chunk index 0
\* and the role assistant, embedded from the whole reply, before step 5
\* starts its own inserts
C19_ReplyPersistedInStepFour ==
  \A p \in Procs :
    turn[p].pc \in {"postProcess", "persisting"} =>
      \E f \in frags :
        /\ f.thread_id = turn[p].thread.id
        /\ f.role = "assistant"
        /\ f.chunk_index = 0
        /\ f.content = turn[p].aiResult.message
        /\ f.embedding = generateEmbeddings(turn[p].aiResult.message)

\* C20: after a turn that ran alone and without a store failure the stored
\* objectives of its thread are the list of the USER_OBJECTIVE directives of
\* its final reply, in order, and readThread returns that list; a reply
\* without a directive leaves the objectives as they were (the empty list
\* of the thread the turn created)
C20_ObjectivesReplaced ==
  \A p \in Procs :
    (turn[p].pc = "done" /\ turns = 1 /\ faults = 0) =>
      /\ readThread(threads, IdRef(turn[p].outcome.threadId), FALSE).tag = "ok"
      /\ readThread(threads, IdRef(turn[p].outcome.threadId), FALSE).thread.userObjectives
           = extractUserObjectives(turn[p].outcome.message)

(***************************************************************************)
(* Properties of the failures of thread() (Spec).                          *)
(***************************************************************************)
\* C21: a turn whose reply was produced and whose objectives update has
\* failed does not fail for that reason: the step that follows the rejected
\* update goes on to persist the messages, with tools and without
C21_UpdateFailureTolerated ==
  [][\A p \in Procs :
       (turn[p].pc = "postProcess" /\ turn[p].update.state = "rejected"
        /\ turn'[p] # turn[p]) => turn'[p].pc # "failed"]_vars

\* the part of C21 that holds: with tools configured no turn ever waits for
\* an objectives update that can reject, the update is made and its failure
\* dropped inside processToolCalls
C21_ToolsPathTolerates ==
  \A p \in Procs : config.tools => turn[p].update = NoUpdate

\* the codes db.utils.ts gives to the failures of the store
StoreCodes == {"UNAUTHORIZED", "DATABASE_ERROR", "NOT_FOUND"}

\* C22: a turn that passed validation and failed in a later step for a
\* reason other than a classified store failure ends with an AppError of
\* code INTERNAL_ERROR whose context has the assistant title, the user id
\* and the thread id
C22_FailureWrappedWithContext ==
  \A p \in Procs :
    (/\ turn[p].pc = "failed"
     /\ validateRequest(turn[p].req)
     /\ turn[p].error.code \notin StoreCodes) =>
      /\ turn[p].error.class = "AppError"
      /\ turn[p].error.code = "INTERNAL_ERROR"
      /\ {"assistantTitle", "userId", "threadId"} \subseteq turn[p].error.context

\* the part of C22 that holds: such a turn ends with an AppError of code
\* INTERNAL_ERROR, wrapped where the failure occurred
C22_FailureIsInternalError ==
  \A p \in Procs :
    (/\ turn[p].pc = "failed"
     /\ validateRequest(turn[p].req)
     /\ turn[p].error.code \notin StoreCodes) =>
      /\ turn[p].error.class = "AppError"
      /\ turn[p].error.code = "INTERNAL_ERROR"
      /\ {"originalMessage", "originalStack"} \subseteq turn[p].error.context

\* the chunks of the request and of the reply of a finished turn are stored
\* at two consecutive order indices of its thread
PostProcessed(t) ==
  \E f \in frags :
    /\ ChunkRows(t.outcome.threadId, t.req.message, "user", f.order_index) \subseteq frags
    /\ ChunkRows(t.outcome.threadId, t.outcome.message, "assistant", f.order_index + 1)
         \subseteq frags

\* C23: a call hands a response to its caller only when it has returned
\* after validation, thread resolution, preparation, processing (the model
\* was invoked) and post-processing (the chunks of both messages are
\* stored, none of its inserts is in flight); a call that failed hands
\* over an error and nothing of a response, whether the model had replied
\* or not
C23_ResponseOnlyAfterAllSteps ==
  \A p \in Procs :
    /\ turn[p].outcome.kind = "response" =>
         /\ turn[p].pc = "done"
         /\ turn[p].error = NoError
         /\ validateRequest(turn[p].req)
         /\ turn[p].outcome.threadId \in DOMAIN threads
         /\ turn[p].calls = {"embedding", "store", "model"}
         /\ turn[p].invocations >= 1
         /\ PostProcessed(turn[p])
         /\ \A r \in inserts : r.owner # p
    /\ turn[p].pc = "done" => turn[p].outcome.kind = "response"
    /\ turn[p].pc = "failed" =>
         /\ turn[p].error # NoError
         /\ turn[p].outcome.kind = "error"
         /\ turn[p].outcome.message = EmptyText
         /\ turn[p].outcome.threadId = 0

\* a turn has failed at a write to the store after the model had replied,
\* while another turn has returned its response
C23_Witness ==
  \E p, q \in Procs :
    /\ turn[p].pc = "failed"
    /\ turn[p].invocations >= 1
    /\ turn[p].error.code = "DATABASE_ERROR"
    /\ turn[p].outcome.kind = "error"
    /\ turn[q].pc = "done"
    /\ turn[q].outcome.kind = "response"

\* the request lacks a required identifier or its context does not conform
Malformed(request) ==
  request.shape \in {"noMeta", "noUserId", "badContext"} \/ request.userId = ""

\* the call made no store, embedding or model call
NoWork(t) == t.calls = {} /\ t.invocations = 0 /\ t.made = 0

\* C30: a call with a request without meta block, without userId, with an
\* empty userId or with a context the schema refuses has failed with an
\* AppError of code VALIDATION_ERROR and has made no store, embedding or
\* model call
C30_MalformedRequestRejected ==
  \A p \in Procs :
    (turn[p].pc # "idle" /\ Malformed(turn[p].req)) =>
      /\ turn[p].pc = "failed"
      /\ turn[p].error.class = "AppError"
      /\ turn[p].error.code = "VALIDATION_ERROR"
      /\ NoWork(turn[p])

\* the part of C30 that holds: every such call has failed without any work,
\* and with VALIDATION_ERROR when the request has a meta block
C30_RejectedWithoutWork ==
  \A p \in Procs :
    (turn[p].pc # "idle" /\ Malformed(turn[p].req)) =>
      /\ turn[p].pc = "failed"
      /\ NoWork(turn[p])
      /\ turn[p].req.shape # "noMeta" =>
           turn[p].error = Thrown("VALIDATION_ERROR", {"validation", "error"})

\* C39: a call whose request is valid in message, meta and context and
\* carries sources shaped as the interface AssistantSource ({url, fileName})
\* is not refused by the request validation
C39_PublicSourcesAccepted ==
  \A p \in Procs :
    (turn[p].pc # "idle" /\ turn[p].req.shape = "publicSources") =>
      ~(turn[p].pc = "failed" /\ turn[p].error.code = "VALIDATION_ERROR")

\* what the code does instead: such a call has failed with VALIDATION_ERROR
\* without any work, while the same request with sources of the schema's
\* shape is never refused by the validation
C39_PublicSourcesRefused ==
  \A p \in Procs :
    /\ (turn[p].pc # "idle" /\ turn[p].req.shape = "publicSources") =>
         /\ turn[p].pc = "failed"
         /\ turn[p].error = Thrown("VALIDATION_ERROR", {"validation", "error"})
         /\ NoWork(turn[p])
    /\ (turn[p].pc = "failed" /\ turn[p].req.shape = "schemaSources") =>
         turn[p].error.code # "VALIDATION_ERROR"

\* a call with sources of the schema's shape has returned its response
C39_SchemaSourcesProcessed ==
  \E p \in Procs :
    /\ turn[p].req.shape = "schemaSources"
    /\ turn[p].pc = "done"
    /\ turn[p].outcome.kind = "response"

(***************************************************************************)
(* Properties of the fragments of a turn (Spec).                           *)
(***************************************************************************)
\* the call of p returns its response in this step
Succeeds(p) == turn[p].pc = "persisting" /\ turn'[p].pc = "done"

\* the order index at which a turn started to persist: that of the reply
\* fragment of processRequest, with tools that of the user chunks
FirstIndex(t) == IF config.tools THEN t.orderIndex ELSE t.first

\* the fragments of a turn: without tools the whole reply at n, and the
\* chunks of the user message at m and those of the reply at m + 1
TurnRows(t, n, m) ==
  (IF config.tools THEN {}
   ELSE {Row(t.thread.id, n, 0, "assistant", t.aiResult.message,
             generateEmbeddings(t.aiResult.message))})
  \cup ChunkRows(t.thread.id, t.req.message, "user", m)
  \cup ChunkRows(t.thread.id, t.aiResult.message, "assistant", m + 1)

\* 1 + j + k without tools, j + k with tools
PatternSize(t) ==
  (IF config.tools THEN 0 ELSE 1)
  + Len(splitTextIntoChunks(t.req.message)) + Len(splitTextIntoChunks(t.aiResult.message))

\* nothing else ran or was in flight when the call started, and no other
\* call has been started since
Undisturbed(p) == turn[p].alone /\ \A q \in Procs \ {p} : turn[q].pc = "idle"

\* C31 as stated: a turn that returns has persisted exactly 1 + j + k
\* fragments without tools, at the order indices n (the whole reply, chunk
\* 0), n + 1 (the user chunks) and n + 2 (the reply chunks), and exactly
\* j + k fragments with tools, at n (user chunks) and n + 1 (reply chunks),
\* n being the next order index of the thread when the turn looked it up
\* to start persisting
C31_FragmentPattern ==
  [][\A p \in Procs :
       Succeeds(p) =>
         /\ FirstIndex(turn[p]) = turn[p].next
         /\ ~config.tools => turn[p].orderIndex = turn[p].first + 1
         /\ TurnRows(turn[p], turn[p].first, turn[p].orderIndex) \subseteq frags'
         /\ turn[p].wrote + 1 = PatternSize(turn[p])]_vars

\* C31 amended: the counts are as stated and n is the next order index of
\* the thread at the lookup; without tools the user chunks and the reply
\* chunks are at m and m + 1, m being the next order index at the lookup of
\* postProcess, which is above n, and is n + 1 for a turn during which
\* nothing else wrote to the store; a lookup the store answered with an
\* error has given 1
C31_PatternWhenUndisturbed ==
  [][\A p \in Procs :
       Succeeds(p) =>
         /\ FirstIndex(turn[p]) = turn[p].next \/ (faults > 0 /\ FirstIndex(turn[p]) = 1)
         /\ ~config.tools => turn[p].orderIndex > turn[p].first
         /\ (~config.tools /\ Undisturbed(p)) => turn[p].orderIndex = turn[p].first + 1
         /\ TurnRows(turn[p], turn[p].first, turn[p].orderIndex) \subseteq frags'
         /\ turn[p].wrote + 1 = PatternSize(turn[p])]_vars

\* the second of two sequential turns without tools has returned: the
\* thread holds the reply of two chunks at 4, the user chunk at 5 and the
\* two reply chunks at 6
C31_Witness ==
  \E p \in Procs :
    /\ ~config.tools
    /\ turns = 2
    /\ turn[p].pc = "done"
    /\ \A q \in Procs \ {p} : turn[q].pc = "idle"
    /\ \E f \in frags : f.order_index = 4 /\ f.chunk_index = 0 /\ Len(f.content) = 2
    /\ Cardinality({f \in frags : f.order_index = 5 /\ f.role = "user"}) = 1
    /\ Cardinality({f \in frags : f.order_index = 6 /\ f.role = "assistant"}) = 2

\* the call of p has looked an order index up for a fragment of a thread
\* that it has not written yet: the reply fragment of processRequest, or a
\* chunk of postProcess whose createMessage is in flight
Holds(p, threadId, orderIndex) ==
  /\ turn[p].thread.id = threadId
  /\ \/ turn[p].pc = "createMessage" /\ turn[p].orderIndex = orderIndex
     \/ \E r \in inserts : /\ r.owner = p
                            /\ r.row.thread_id = threadId
                            /\ r.row.order_index = orderIndex

\* the call of p gets the result of getNextOrderIndex in this step
LooksUp(p) ==
  \/ turn[p].pc = "step4" /\ turn'[p].pc = "createMessage"
  \/ turn[p].pc = "postProcess" /\ turn'[p].pc = "persisting"

\* C32: the order index a turn gets is the highest order index among the
\* persisted fragments of its thread plus one (1 when the store answers
\* with an error), whatever order index another turn on the thread holds
\* for a fragment it has not written yet; nothing makes a turn wait for
\* another, so that two concurrent turns come to hold the same order index
\* of one thread (C32_Witness)
C32_LookupReadsPersistedOnly ==
  [][\A p \in Procs :
       LooksUp(p) =>
         /\ turn'[p].orderIndex \in {MaxOrderIndex(frags, turn[p].thread.id) + 1, 1}
         /\ faults' = faults =>
              turn'[p].orderIndex = MaxOrderIndex(frags, turn[p].thread.id) + 1]_vars

\* without any failure, two running turns on one thread both hold the same
\* order index for a fragment each of them is about to write
C32_Witness ==
  /\ faults = 0
  /\ \E threadId \in DOMAIN threads, orderIndex \in 1..4 :
       /\ Holds("h1", threadId, orderIndex)
       /\ Holds("h2", threadId, orderIndex)

\* the call of p throws in this step
Fails(p) == Running(turn[p]) /\ turn'[p].pc = "failed"

\* C33: no step of thread() takes a fragment out of the store: when a
\* call fails, in postProcess after processRequest persisted the reply, or
\* at one insert of postProcess after others have landed, every fragment
\* persisted so far stays, then and ever after, and the inserts of the call
\* that are still in flight are not withdrawn
C33_NoRollback ==
  [][/\ frags \subseteq frags'
     /\ \A p \in Procs :
          Fails(p) =>
            \A r \in inserts :
              r.owner = p =>
                \/ r.row \in frags'
                \/ ~unique_thread_message_chunk(frags, r.row)
                \/ faults' > faults
                \/ [r EXCEPT !.owner = "orphan"] \in inserts']_vars

\* the only turn there was has failed with tools configured and all its
\* inserts have ended: the store holds the user message and no reply
C33_Witness ==
  /\ turns = 1
  /\ config.tools
  /\ inserts = {}
  /\ \E p \in Procs : turn[p].pc = "failed" /\ turn[p].made = 1
  /\ \E f \in frags : f.thread_id = 1 /\ f.role = "user"
  /\ \A f \in frags : f.role # "assistant"

\* a turn without tools has failed in postProcess at the embedding of the
\* user message and all its inserts have ended: the reply fragment of
\* processRequest and the reply chunk of postProcess are stored, the user
\* message is not
C33_ReplyFragmentStays ==
  /\ turns = 1
  /\ ~config.tools
  /\ inserts = {}
  /\ \E p \in Procs : turn[p].pc = "failed" /\ turn[p].made = 1
  /\ \E f \in frags : f.thread_id = 1 /\ f.order_index = 1 /\ f.role = "assistant"
  /\ \E f \in frags : f.thread_id = 1 /\ f.order_index = 3 /\ f.role = "assistant"
  /\ \A f \in frags : f.role # "user"

\* C36: when a turn returns, every fragment it persisted of the user
\* message has a smaller order index than every fragment it persisted of
\* the reply
C36_UserBeforeReply ==
  [][\A p \in Procs :
       Succeeds(p) =>
         \A f, g \in TurnRows(turn[p], turn[p].first, turn[p].orderIndex) :
           (f.role = "user" /\ g.role = "assistant") =>
             f.order_index < g.order_index]_vars

\* the part of C36 that holds: the same with tools configured, and without
\* tools for the chunks postProcess persists
C36_UserBeforeReplyChunks ==
  [][\A p \in Procs :
       Succeeds(p) =>
         \A f, g \in TurnRows(turn[p], turn[p].first, turn[p].orderIndex) :
           (/\ f.role = "user"
            /\ g.role = "assistant"
            /\ config.tools \/ g.order_index # turn[p].first) =>
             f.order_index < g.order_index]_vars

(***************************************************************************)
(* Properties of the retrieval step (Spec).                                *)
(***************************************************************************)
\* the call of p fails in this step in findSimilarMessages: at the
\* embedding of the query or at the search
RetrievalFails(p) ==
  /\ turn[p].pc = "prepare"
  /\ turn'[p].pc = "failed"
  /\ "model" \notin turn'[p].calls

\* C35: a call that fails in findSimilarMessages ends with an error without
\* the model having been invoked and without a fragment written or on its
\* way; a call whose search returned no fragment goes on, and the model
\* gets the system message and the new user message and nothing else
C35_RetrievalFailureOrEmpty ==
  [][\A p \in Procs :
       /\ RetrievalFails(p) =>
            /\ turn'[p].outcome.kind = "error"
            /\ turn'[p].error.code \in {"INTERNAL_ERROR", "NOT_FOUND"}
            /\ turn'[p].invocations = 0
            /\ turn[p].wrote = 0
            /\ frags' = frags
            /\ \A r \in inserts' : r.owner # p
            /\ inserts' = inserts
            /\ updates' = updates
       /\ (/\ turn[p].pc = "prepare"
           /\ turn'[p].sent # <<>>
           /\ turn'[p].similar = <<>>) =>
            /\ Running(turn'[p])
            /\ turn'[p].invocations >= 1
            /\ Len(turn'[p].sent) = 2
            /\ turn'[p].sent[1].role = "system"
            /\ turn'[p].sent[2] = Message("user", turn[p].req.message)]_vars

\* one call has got an empty list and its history of two messages has gone
\* to the model, while the other call has failed at the search
C35_Witness ==
  \E p, q \in Procs :
    /\ turn[p].sent # <<>>
    /\ turn[p].similar = <<>>
    /\ Len(turn[p].sent) = 2
    /\ turn[p].invocations >= 1
    /\ turn[q].pc = "failed"
    /\ turn[q].error.code = "NOT_FOUND"
    /\ turn[q].invocations = 0

(***************************************************************************)
(* Properties of the objectives of a thread (Spec).                        *)
(***************************************************************************)
\* thread() is called on p in this step
Starts(p) == ~Running(turn[p]) /\ turns' = turns + 1 /\ turn'[p] # turn[p]

\* the objectives stored for the thread a request names, <<>> when it names
\* no stored thread
StoredObjectives(request) ==
  IF request.threadId.kind = "id" /\ request.threadId.id \in DOMAIN threads
  THEN threads[request.threadId.id].user_objectives.value
  ELSE <<>>

\* C34: a valid call on a thread whose stored list of objectives is not
\* empty, as it is after a turn that updated the objectives, does not fail
\* in reading the thread when the store does not fail: it goes on with the
\* stored objectives, and the system message it sends to the model is the
\* configured system message followed by one "- " line for every objective
\* in stored order
C34_ObjectivesInSystemMessage ==
  [][\A p \in Procs :
       /\ (/\ Starts(p)
           /\ validateRequest(turn'[p].req)
           /\ StoredObjectives(turn'[p].req) # <<>>
           /\ faults' = faults) =>
            /\ turn'[p].pc = "prepare"
            /\ turn'[p].thread.userObjectives = StoredObjectives(turn'[p].req)
       /\ (/\ turn[p].pc = "prepare"
           /\ turn'[p].sent # <<>>
           /\ StoredObjectives(turn[p].req) # <<>>) =>
            turn'[p].sent[1].content =
              SystemMessage \o <<Line("User Objectives:")>>
              \o [i \in DOMAIN StoredObjectives(turn[p].req) |->
                    [marker |-> "-", body |-> StoredObjectives(turn[p].req)[i]]]]_vars

\* the only call there was ran without tools and failed in processRequest
\* before the reply fragment was stored: at the model invocation, at the
\* embedding of the reply or at createMessage
FailedInStepFour(p) ==
  /\ turns = 1
  /\ ~config.tools
  /\ turn[p].pc = "failed"
  /\ turn[p].invocations = 1
  /\ "model" \in turn[p].calls
  /\ frags = {}

\* C38: after such a failure the objectives of every stored thread are
\* what they were before the turn, the empty list createThread stored,
\* wherever the objectives update the turn had started stands: landed
\* before the failure, still in flight, or landed after it
C38_ObjectivesUnchangedOnFailure ==
  \A p \in Procs :
    FailedInStepFour(p) =>
      \A id \in DOMAIN threads : threads[id].user_objectives = JsonString(<<>>)

\* what the code does instead: no call ever works on a thread with
\* objectives, because the list updateThread stores cannot be read back
C34_ObjectivesNeverRead ==
  \A p \in Procs : turn[p].thread.userObjectives = <<>>

(***************************************************************************)
(* Properties of the store operations (StoreSpec).                         *)
(***************************************************************************)
\* C24: whatever operation was called last, a PGRST116 answer of the store
\* has made it throw UNAUTHORIZED and any other error of the store has made
\* it throw DATABASE_ERROR; it has returned no value after an error
C24_StoreFailureMapped ==
  /\ op.signal = "PGRST116" => (op.tag = "error" /\ op.code = "UNAUTHORIZED")
  /\ op.signal = "other" => (op.tag = "error" /\ op.code = "DATABASE_ERROR")

\* the part of C24 that holds: createThread and createMessage map both
\* kinds of failure as stated, and every operation but findSimilarMessages
\* throws UNAUTHORIZED for PGRST116
C24_MappedWhereChecked ==
  /\ op.name \in {"createThread", "createMessage"} => C24_StoreFailureMapped
  /\ (op.signal = "PGRST116" /\ op.name # "findSimilarMessages") =>
       (op.tag = "error" /\ op.code = "UNAUTHORIZED")

\* C29: a deleteThread(T) that returned true leaves a store in which
\* readThread(T) finds no thread and no fragment references T, and in which
\* every other thread and every fragment of another thread is as before
C29_DeleteCascades ==
  [][(/\ op'.flip # op.flip
      /\ op'.name = "deleteThread"
      /\ op'.tag = "ok") =>
       /\ readThread(threads', IdRef(op'.threadId), FALSE).tag # "ok"
       /\ \A f \in frags' : f.thread_id # op'.threadId
       /\ \A id \in DOMAIN threads \ {op'.threadId} :
            id \in DOMAIN threads' /\ threads'[id] = threads[id]
       /\ {f \in frags' : f.thread_id # op'.threadId}
            = {f \in frags : f.thread_id # op'.threadId}]_vars

\* the part of C29 that holds: the same for a deleteThread the store
\* answered without an error
C29_DeleteCascadesWhenStoreAnswers ==
  [][(/\ op'.flip # op.flip
      /\ op'.name = "deleteThread"
      /\ op'.signal = "none") =>
       /\ op'.tag = "ok"
       /\ readThread(threads', IdRef(op'.threadId), FALSE).tag # "ok"
       /\ \A f \in frags' : f.thread_id # op'.threadId
       /\ \A id \in DOMAIN threads \ {op'.threadId} :
            id \in DOMAIN threads' /\ threads'[id] = threads[id]
       /\ {f \in frags' : f.thread_id # op'.threadId}
            = {f \in frags : f.thread_id # op'.threadId}]_vars

(***************************************************************************)
(* Properties of the model invocation (AICallSpec).                        *)
(***************************************************************************)
\* the entities a text states behind a marker: those of the JSON text of
\* the first line with the marker, none when it has no such line or the
\* text is no JSON
Stated(content, marker) ==
  IF \A i \in DOMAIN content : content[i].marker # marker THEN <<>>
  ELSE LET line == content[CHOOSE i \in DOMAIN content :
                             /\ content[i].marker = marker
                             /\ \A j \in 1..(i - 1) : content[j].marker # marker]
       IN IF JSONparse(line.body).ok THEN AsArray(JSONparse(line.body).value) ELSE <<>>

\* the objectives a text states: the bodies of its USER_OBJECTIVE lines
StatedObjectives(content) ==
  LET lines == SelectSeq(content, LAMBDA l : l.marker = "USER_OBJECTIVE:")
  IN [i \in DOMAIN lines |-> lines[i].body]

\* the call has ended with a final reply and thread() has returned
FinalReplyReturned == call.pc = "returned"

\* C25: for every final reply, streamed or not and with or without tools,
\* the lists of the AssistantResponse are the entities extracted from the
\* CREATED, UPDATED and DELETED blocks of the reply text
C25_EntityBlocksInResponse ==
  FinalReplyReturned =>
    /\ call.response.created = extractEntityChanges(call.response.message).created
    /\ call.response.updated = extractEntityChanges(call.response.message).updated
    /\ call.response.deleted = extractEntityChanges(call.response.message).deleted

\* the part of C25 that holds: the same for a streamed reply of an
\* assistant without tools; in every other case the lists are empty
C25_OnlyStreamedWithoutTools ==
  FinalReplyReturned =>
    IF call.request.stream /\ ~call.config.tools
    THEN C25_EntityBlocksInResponse
    ELSE /\ call.response.created = <<>>
         /\ call.response.updated = <<>>
         /\ call.response.deleted = <<>>

\* processAIResponse has been applied to a reply text
Extracted ==
  /\ call.pc \in {"resolved", "returned"}
  /\ call.request.stream
  /\ call.result.toolCalls = <<>>

\* C26: the result of the extraction has the objectives of all
\* USER_OBJECTIVE lines of the text and, for each of the three markers,
\* the entities of its block when that is well-formed JSON and the empty
\* list when it is not, whatever the other blocks are
C26_DirectivesExtracted ==
  Extracted =>
    /\ call.result.userObjectives = StatedObjectives(call.result.message)
    /\ call.result.created = Arr(Stated(call.result.message, "CREATED:"))
    /\ call.result.updated = Arr(Stated(call.result.message, "UPDATED:"))
    /\ call.result.deleted = Arr(Stated(call.result.message, "DELETED:"))

\* every block of the text ends with its JSON text: the next line, if any,
\* begins another block
BlocksEndText(content) ==
  \A i \in DOMAIN content :
    (content[i].marker \in EntityMarkers /\ i < Len(content)) =>
      content[i + 1].marker \in EntityMarkers \ {content[i].marker}

\* the part of C26 that holds: the objectives are extracted from every
\* text, a block that is no JSON gives the empty list and leaves the other
\* blocks as they are, and a well-formed block is extracted when nothing
\* but another block follows it
C26_ExtractedWhenBlocksEndText ==
  Extracted =>
    /\ call.result.userObjectives = StatedObjectives(call.result.message)
    /\ BlocksEndText(call.result.message) =>
         /\ call.result.created = Arr(Stated(call.result.message, "CREATED:"))
         /\ call.result.updated = Arr(Stated(call.result.message, "UPDATED:"))
         /\ call.result.deleted = Arr(Stated(call.result.message, "DELETED:"))

\* C27: an invocation configured with a token callback and a response
\* format sends one request that is not streamed and carries the response
\* format, never calls the token callback, and has warned
C27_StructuredCallNotStreamed ==
  (call.pc # "idle" /\ call.config.onToken /\ call.config.responseFormat) =>
    /\ call.pc \in {"default", "resolved"}
    /\ ~call.request.stream
    /\ call.request.response_format
    /\ call.tokens = <<>>
    /\ call.warnings = 1

\* such an invocation has resolved with the text of a reply of three lines
C27_Witness ==
  /\ call.pc = "resolved"
  /\ call.config.onToken
  /\ call.config.responseFormat
  /\ Len(call.result.message) = 3
  /\ call.tokens = <<>>
  /\ call.warnings = 1

\* C28: the toolCalls of a streamed reply are the tool calls the model
\* streamed, one entry for each, with the fragments of its arguments and
\* of no other call in the order of arrival
C28_ToolCallFragmentsJoined ==
  (call.pc \in {"resolved", "toolCalls"} /\ call.request.stream) =>
    call.result.toolCalls = CompletionMessage(call.completion).tool_calls

\* every entry of every delta stands at the position of its index
IndexIsPosition(stream) ==
  \A c \in DOMAIN stream :
    \A k \in DOMAIN stream[c].tool_calls : stream[c].tool_calls[k].index = k - 1

\* the part of C28 that holds: the same for the streams in which every
\* entry stands in its delta at the position of its index
C28_JoinedWhenIndexIsPosition ==
  (/\ call.pc \in {"resolved", "toolCalls"}
   /\ call.request.stream
   /\ IndexIsPosition(call.completion)) =>
    call.result.toolCalls = CompletionMessage(call.completion).tool_calls

(***************************************************************************)
(* Properties of the tool-call loop (ToolSpec).                            *)
(***************************************************************************)
\* the tool messages of a history
ToolMessages(messages) == SelectSeq(messages, LAMBDA m : m.role = "tool")

\* the history of a returned call whose first reply asked for one tool call
\* and whose second reply asked for none
OneCallThenText ==
  /\ loop.pc = "returned"
  /\ loop.rounds = 1
  /\ Len(loop.messages[3].tool_calls) = 1

\* C11: when the first reply requests one tool call and the second reply
\* none, exactly one tool call is handled (one tool message, answering that
\* call), the model is invoked exactly twice, and the response carries the
\* text of the second invocation
C11_OneCallTwoInvocations ==
  OneCallThenText =>
    /\ Len(ToolMessages(loop.messages)) = 1
    /\ Len(loop.messages) = 5
    /\ loop.messages[4].role = "tool"
    /\ loop.messages[4].tool_call_id = loop.messages[3].tool_calls[1].id
    /\ loop.invocations = 2
    /\ loop.messages[5].role = "assistant"
    /\ loop.messages[5].tool_calls = <<>>
    /\ loop.outcome.kind = "response"
    /\ loop.outcome.message = loop.messages[5].content
    /\ loop.outcome.message = loop.aiResult.message

\* the tool's function ran and returned its text, the second reply was "b"
C11_Witness ==
  /\ OneCallThenText
  /\ loop.messages[4].content = [kind |-> "text", text |-> "sunny"]
  /\ loop.outcome.message = <<Line("b")>>

\* C12: the calls of a round run concurrently, and for every order in which
\* they complete the tool messages appended to the history are the responses
\* of the calls in the order of the model's tool-call list
C12_ResponsesInListOrder ==
  [][(loop.pc = "round" /\ loop'.pc = "invoke" /\ Recorded(loop.rounds)) =>
       /\ loop'.messages =
            loop.messages \o [i \in DOMAIN loop.aiResult.toolCalls |->
                                loop.results[i].response]
       /\ \A i \in DOMAIN loop.aiResult.toolCalls :
            loop'.messages[Len(loop.messages) + i].tool_call_id =
              loop.aiResult.toolCalls[i].id]_vars

\* two functions were running at once, the second call completed first with
\* a different result, and the round has been collected
C12_Witness ==
  /\ loop.pc = "invoke"
  /\ loop.rounds = 1
  /\ loop.order = <<2, 1>>
  /\ Len(loop.messages) = 5
  /\ loop.messages[4].tool_call_id = "call_1"
  /\ loop.messages[5].tool_call_id = "call_2"
  /\ loop.messages[4].content = [kind |-> "text", text |-> "sunny"]
  /\ loop.messages[5].content =
       JSONstringify(Result(Undefined, Entity("e1"), Undefined, Arr(<<Entity("e6")>>)))

\* C13: for every behaviour of the model the loop ends, by returning the
\* response or by failing
C13_LoopEnds == <>(loop.pc \in {"returned", "failed"})

\* C14: a requested tool whose name matches no configured tool is never
\* answered by a tool-response message: the call has no result, the error
\* NOT_FOUND leaves the loop
C14_UnknownToolThrown ==
  \A i \in DOMAIN loop.results :
    loop.aiResult.toolCalls[i].name \in ConfiguredTools

\* the arguments texts that are JSON, and those the schema of the tool accepts
JsonTexts == {"{}", "{location:Berlin}", "{location:5}"}
SchemaTexts == {"{}", "{location:Berlin}"}

\* the function of call i of the running round has been called
Invoked(i) ==
  /\ loop.pc = "round"
  /\ i \in DOMAIN loop.aiResult.toolCalls
  /\ (i \in DOMAIN loop.results => loop.results[i].executed)

\* C15: the function of a tool is called only for arguments that are JSON
\* and pass the schema; a call whose arguments fail either check is answered
\* without its function being called, the error being VALIDATION_ERROR with
\* a message that tells the two checks apart
C15_ValidatedBeforeExecuted ==
  loop.pc = "round" =>
    \A i \in DOMAIN loop.aiResult.toolCalls :
      LET toolCall == loop.aiResult.toolCalls[i] IN
        /\ Invoked(i) => toolCall.arguments \in JsonTexts \cap SchemaTexts
        /\ (toolCall.name \in ConfiguredTools /\ toolCall.arguments \notin JsonTexts) =>
             /\ i \in DOMAIN loop.results
             /\ ~loop.results[i].executed
             /\ loop.results[i].caught = "VALIDATION_ERROR"
             /\ loop.results[i].response.content.value.error =
                  Str("Invalid tool arguments format: ")
        /\ (toolCall.name \in ConfiguredTools /\ toolCall.arguments \in JsonTexts \ SchemaTexts) =>
             /\ i \in DOMAIN loop.results
             /\ ~loop.results[i].executed
             /\ loop.results[i].caught = "VALIDATION_ERROR"
             /\ loop.results[i].response.content.value.error =
                  Str("AssistantTool Validation Error: ")

\* a round whose first call has arguments that are no JSON and whose second
\* call has run its function
C15_Witness ==
  /\ loop.pc = "round"
  /\ loop.aiResult.toolCalls[1].arguments = "{location:"
  /\ DOMAIN loop.results = {1, 2}
  /\ ~loop.results[1].executed
  /\ loop.results[2].executed
  /\ loop.results[2].caught = ""

\* the content {error: message} with a message that is not empty
ErrorContent(content) ==
  /\ content.kind = "json"
  /\ content.value.kind = "object"
  /\ content.value.error.kind = "string"
  /\ content.value.error.text # ""

\* C16: when the function of a call throws, the call resolves with a tool
\* message that has the call's id and the content {error: message}; the loop
\* does not fail, the responses of all calls of the round are appended and
\* the model is invoked again on the extended history
C16_ExecutionFailureAnswered ==
  [][(loop.pc = "round" /\ loop.thrown # {}) =>
       /\ \A i \in loop.thrown :
            /\ i \in DOMAIN loop.results
            /\ loop.results[i].response.role = "tool"
            /\ loop.results[i].response.tool_call_id = loop.aiResult.toolCalls[i].id
            /\ ErrorContent(loop.results[i].response.content)
       /\ loop'.pc \in {"round", "invoke"}
       /\ loop'.pc = "invoke" =>
            /\ DOMAIN loop.results = DOMAIN loop.aiResult.toolCalls
            /\ Recorded(loop.rounds) =>
                 /\ Len(loop'.messages) = Len(loop.messages) + Len(loop.aiResult.toolCalls)
                 /\ \A i \in DOMAIN loop.aiResult.toolCalls :
                      loop'.messages[Len(loop.messages) + i] = loop.results[i].response]_vars

\* the first call of a round threw, the second returned its text, and the
\* model was invoked again
C16_Witness ==
  /\ loop.pc = "returned"
  /\ loop.rounds = 1
  /\ loop.invocations = 2
  /\ Len(loop.messages) = 6
  /\ loop.messages[4].tool_call_id = "call_1"
  /\ loop.messages[4].content.kind = "json"
  /\ loop.messages[4].content.value.error = Str("AssistantTool Call Error: ")
  /\ loop.messages[5].tool_call_id = "call_2"
  /\ loop.messages[5].content = [kind |-> "text", text |-> "sunny"]

\* the entities a tool message contributes under a key
Contributed(message, key) ==
  IF message.content.kind = "text" THEN <<>>
  ELSE IF message.content.value.error.kind # "undefined" THEN <<>>
  ELSE IF message.content.value[key].kind = "undefined" THEN <<>>
  ELSE IF message.content.value[key].kind = "array" THEN message.content.value[key].items
  ELSE <<message.content.value[key]>>

\* the concatenation over the tool messages of a history, in its order
RECURSIVE Concatenated(_, _)
Concatenated(messages, key) ==
  IF messages = <<>> THEN <<>>
  ELSE (IF Head(messages).role = "tool" THEN Contributed(Head(messages), key) ELSE <<>>)
       \o Concatenated(Tail(messages), key)

\* C17: the created, updated and deleted lists are the concatenation, over
\* the rounds in round order and within a round in tool-call-list order, of
\* the values of the tool responses that parse as JSON, a single object
\* counting as a list of one; a response with an error contributes nothing;
\* the response returns these lists
C17_EntityListsConcatenated ==
  /\ \A key \in {"created", "updated", "deleted"} :
       loop[key] = Concatenated(loop.messages, key)
  /\ loop.pc = "returned" =>
       \A key \in {"created", "updated", "deleted"} : loop.outcome[key] = loop[key]

\* two rounds: an array and a single object in list order, then a single
\* object beside a response with an error and a created entity
C17_Witness ==
  /\ loop.pc = "returned"
  /\ loop.rounds = 2
  /\ loop.outcome.created = <<Entity("e2"), Entity("e3"), Entity("e1"), Entity("e1")>>
  /\ loop.outcome.updated = <<Entity("e4")>>
  /\ loop.outcome.deleted = <<Entity("e6"), Entity("e6")>>
  /\ \E k \in DOMAIN loop.messages :
       /\ loop.messages[k].role = "tool"
       /\ loop.messages[k].content.kind = "json"
       /\ loop.messages[k].content.value.error = Str("denied")
       /\ loop.messages[k].content.value.created = Entity("e5")

\* the position of the last assistant message in front of position k of a
\* history, 0 when there is none
PrecedingAssistant(messages, k) ==
  IF \E a \in 1..(k - 1) : messages[a].role = "assistant"
  THEN CHOOSE a \in 1..(k - 1) :
         /\ messages[a].role = "assistant"
         /\ \A b \in (a + 1)..(k - 1) : messages[b].role # "assistant"
  ELSE 0

\* the tool messages that follow the assistant message at position a,
\* before the next assistant message, and carry an id
Answers(messages, a, id) ==
  {k \in (a + 1)..Len(messages) :
     /\ messages[k].role = "tool"
     /\ messages[k].tool_call_id = id
     /\ PrecedingAssistant(messages, k) = a}

\* C37: in the history the loop passes to the model, every tool message
\* follows an assistant message that recorded a tool call with its id (the
\* last assistant message in front of it), and every tool call an assistant
\* message recorded is answered by exactly one of the tool messages that
\* follow that assistant message
C37_ToolResponsesPaired ==
  loop.pc = "invoke" =>
    /\ \A k \in DOMAIN loop.messages :
         loop.messages[k].role = "tool" =>
           /\ PrecedingAssistant(loop.messages, k) # 0
           /\ \E i \in DOMAIN loop.messages[PrecedingAssistant(loop.messages, k)].tool_calls :
                loop.messages[PrecedingAssistant(loop.messages, k)].tool_calls[i].id
                  = loop.messages[k].tool_call_id
    /\ \A a \in DOMAIN loop.messages :
         \A i \in DOMAIN loop.messages[a].tool_calls :
           Cardinality(Answers(loop.messages, a, loop.messages[a].tool_calls[i].id)) = 1

\* the history after two rounds is about to be passed to the model: a
\* round of two calls and a round of one call of a tool that is not
\* configured, three tool messages in all
C37_Witness ==
  /\ loop.pc = "invoke"
  /\ loop.rounds = 2
  /\ Len(ToolMessages(loop.messages)) = 3
  /\ Len(loop.messages[3].tool_calls) = 2
  /\ loop.messages[6].tool_calls[1].name = "getTime"
  /\ loop.messages[7].tool_call_id = "call_1"

====
